---- MODULE Spec2Model ----
(***************************************************************************)
(* A model of the deck-gen pipeline's agent runtime: the cost tracker, the *)
(* retry executor, the classify phase (02-classify-context.js driving      *)
(* ClaudeClassifier) and the final phase (04-generate-final.js driving     *)
(* GeminiGenerator and NanoBananaGenerator), and the response repair       *)
(* parser (extractJSON / repairJSON) of BaseAgent.                         *)
(*                                                                         *)
(* Text is modelled as a sequence of one-character strings.  Money is      *)
(* counted in cost units of 25 micro-dollars (the largest unit in which    *)
(* every rate of getRates is a whole number per 1000 tokens), token counts *)
(* in thousands of tokens, so every cost is an exact integer; the          *)
(* rounding of JavaScript's binary floating point is not modelled.         *)
(***************************************************************************)
EXTENDS Integers, Sequences, FiniteSets, TLC

VARIABLES cfg, pc, tracker, retry, idx, calls, limitHit, raisedKinds, work, out,
          json, merge, deck, driver, img, extract, logger

\* calls, limitHit and raisedKinds observe the run: the provider calls each
\* agent has issued, whether addUsage has raised the cost-limit error in it,
\* and the kinds of error withRetry has thrown so far.  json is a response
\* text handed to the repair parser on its own, and what came of it; merge
\* the classifications handed to mergeClassifications; deck a parsed response
\* handed to an agent's validator; driver a run of the pipeline driver
\* script; img a run of the image generator against the clock; extract a
\* run of the extraction script; logger a PromptLogger and its directory.
runVars == <<cfg, pc, tracker, retry, idx, calls, limitHit, raisedKinds, work, out>>

vars == <<cfg, pc, tracker, retry, idx, calls, limitHit, raisedKinds, work, out,
          json, merge, deck, driver, img, extract, logger>>

\* A part of the program that is not under study in a run is idle.
Idle == [stage |-> "idle"]

----------------------------------------------------------------------------
(* Text helpers: String.prototype.includes, toLowerCase, number rendering. *)

Includes(hay, needle) ==
  \E i \in 0..(Len(hay) - Len(needle)) : SubSeq(hay, i + 1, i + Len(needle)) = needle

Lower(c) ==
  CASE c = "C" -> "c"
    [] c = "N" -> "n"
    [] c = "R" -> "r"
    [] c = "S" -> "s"
    [] c = "U" -> "u"
    [] c = "I" -> "i"
    [] c = "A" -> "a"
    [] c = "D" -> "d"
    [] c = "Y" -> "y"
    [] c = "M" -> "m"
    [] OTHER -> c

ToLowerCase(s) == [i \in 1..Len(s) |-> Lower(s[i])]

DigitChar(d) == <<"0", "1", "2", "3", "4", "5", "6", "7", "8", "9">>[d + 1]

RECURSIVE DecStr(_)
DecStr(n) ==
  IF n < 10 THEN <<DigitChar(n)>>
  ELSE Append(DecStr(n \div 10), DigitChar(n % 10))

RECURSIVE StripZeros(_)
StripZeros(s) ==
  IF Len(s) > 0 /\ s[Len(s)] = "0" THEN StripZeros(SubSeq(s, 1, Len(s) - 1)) ELSE s

\* Cost units per dollar and per cent (one unit is 25 micro-dollars).
UnitsPerDollar == 40000
UnitsPerCent == 400

\* Number.prototype.toFixed(2) of an amount: nearest cent, two decimals.
ToFixed2(units) ==
  LET cents == (units + (UnitsPerCent \div 2)) \div UnitsPerCent
  IN  DecStr(cents \div 100) \o <<".">>
        \o <<DigitChar((cents % 100) \div 10), DigitChar(cents % 10)>>

\* String(number) of an amount: the shortest decimal, no trailing zeros.
NumberToString(units) ==
  LET whole == units \div UnitsPerDollar
      micro == (units % UnitsPerDollar) * 25
      six   == [i \in 1..6 |->
                 DigitChar((micro \div (10 ^ (6 - i))) % 10)]
  IN  IF micro = 0 THEN DecStr(whole)
      ELSE DecStr(whole) \o <<".">> \o StripZeros(six)

----------------------------------------------------------------------------
(* Errors.  Every error is a record of one shape; originalError holds the  *)
(* wrapped error's record in a one-element sequence, or is empty.          *)

MkError(name, code, message) ==
  [name |-> name, code |-> code, message |-> message,
   attempts |-> 0, originalError |-> <<>>]

----------------------------------------------------------------------------
(* CostTracker.                                                            *)

\* The default ceiling, 50 dollars: CostTracker's and BaseAgent's default.
DefaultMaxCost == 50 * UnitsPerDollar

\* Rates per 1000 tokens in cost units (0.003 dollars = 120 units).
getRates(provider, model) ==
  CASE provider = "anthropic" /\ model = "claude-sonnet-4-20250514" ->
         [input |-> 120, output |-> 600]
    [] provider = "anthropic" /\ model = "claude-3-5-sonnet-20241022" ->
         [input |-> 120, output |-> 600]
    [] provider = "openai" /\ model = "gpt-5.2" -> [input |-> 400, output |-> 1200]
    [] provider = "openai" /\ model = "gpt-4o" -> [input |-> 200, output |-> 600]
    [] provider = "openai" /\ model = "gpt-4-turbo" -> [input |-> 400, output |-> 1200]
    [] provider = "google" /\ model = "gemini-2.0-flash" -> [input |-> 3, output |-> 12]
    [] provider = "google" /\ model = "gemini-3-pro-image-preview" ->
         [input |-> 10, output |-> 40]
    [] OTHER -> [input |-> 400, output |-> 1200]

NewCostTracker(maxCost) ==
  [maxCost |-> maxCost, totalCost |-> 0, breakdown |-> <<>>, calls |-> <<>>,
   raised |-> <<>>]

CostLimitMessage(totalCost, maxCost) ==
  <<"C","o","s","t"," ","l","i","m","i","t"," ","e","x","c","e","e","d","e","d",":"," ","$">>
    \o ToFixed2(totalCost) \o <<" ",">"," ","$">> \o NumberToString(maxCost)

\* The breakdown overwritten with each call's cost instead of added to.
BreakdownOf_Fresh(t, provider) == 0

\* The provider's entry of the breakdown, 0 when it has none.
BreakdownOf(t, provider) ==
  IF \E i \in 1..Len(t.breakdown) : t.breakdown[i].provider = provider
  THEN (CHOOSE e \in {t.breakdown[i] : i \in 1..Len(t.breakdown)} :
          e.provider = provider).cost
  ELSE 0

SetBreakdown(t, provider, cost) ==
  IF \E i \in 1..Len(t.breakdown) : t.breakdown[i].provider = provider
  THEN [i \in 1..Len(t.breakdown) |->
          IF t.breakdown[i].provider = provider
          THEN [provider |-> provider, cost |-> cost] ELSE t.breakdown[i]]
  ELSE Append(t.breakdown, [provider |-> provider, cost |-> cost])

\* Whether addUsage throws once the call is recorded.
OverLimit(totalCost, maxCost) == totalCost > maxCost

\* addUsage with the limit checked before the call is booked: a call that
\* crosses the ceiling throws and leaves no record.
addUsage_ThrowBeforeRecord(t, provider, model, inputTokens, outputTokens) ==
  LET rates == getRates(provider, model)
      cost  == inputTokens * rates.input + outputTokens * rates.output
      total == t.totalCost + cost
      threw == OverLimit(total, t.maxCost)
      t2    == IF threw THEN [t EXCEPT !.raised = Append(@, threw)]
               ELSE [t EXCEPT
                       !.totalCost = total,
                       !.breakdown = SetBreakdown(t, provider, BreakdownOf(t, provider) + cost),
                       !.calls = Append(@, [provider |-> provider, model |-> model,
                                            inputTokens |-> inputTokens,
                                            outputTokens |-> outputTokens, cost |-> cost]),
                       !.raised = Append(@, threw)]
  IN  [tracker |-> t2, threw |-> threw, cost |-> cost,
       error |-> MkError("CostLimitError", "", CostLimitMessage(total, t.maxCost))]

\* addUsage: the tracker after the call and, when it throws, the error.
\* raised is the history of which calls threw (an observation, not a field).
addUsage(t, provider, model, inputTokens, outputTokens) ==
  LET rates == getRates(provider, model)
      cost  == inputTokens * rates.input + outputTokens * rates.output
      total == t.totalCost + cost
      threw == OverLimit(total, t.maxCost)
      t2    == [t EXCEPT
                 !.totalCost = total,
                 !.breakdown = SetBreakdown(t, provider, BreakdownOf(t, provider) + cost),
                 !.calls = Append(@, [provider |-> provider, model |-> model,
                                      inputTokens |-> inputTokens,
                                      outputTokens |-> outputTokens, cost |-> cost]),
                 !.raised = Append(@, threw)]
  IN  [tracker |-> t2, threw |-> threw, cost |-> cost,
       error |-> MkError("CostLimitError", "", CostLimitMessage(total, t.maxCost))]

getSummary(t) ==
  [totalCost |-> t.totalCost, breakdown |-> t.breakdown, callCount |-> Len(t.calls),
   averageCostPerCall |-> IF Len(t.calls) > 0 THEN t.totalCost \div Len(t.calls) ELSE 0]

----------------------------------------------------------------------------
(* BaseAgent: retry classification and the retry executor.                 *)

DefaultRetryAttempts == 3
DefaultRetryDelay == 1000

retryableCodes ==
  {"rate_limit_exceeded", "server_error", "timeout", "ECONNRESET", "ETIMEDOUT",
   "ENOTFOUND", "overloaded_error", "service_unavailable"}

retryableMessages ==
  { <<"t","i","m","e","o","u","t">>,
    <<"r","a","t","e"," ","l","i","m","i","t">>,
    <<"o","v","e","r","l","o","a","d","e","d">>,
    <<"5","0","3">>, <<"5","0","2">>, <<"5","0","0">>,
    <<"t","e","m","p","o","r","a","r","i","l","y"," ",
      "u","n","a","v","a","i","l","a","b","l","e">> }

isRetryable(error) ==
  \/ error.code # "" /\ error.code \in retryableCodes
  \/ \E msg \in retryableMessages : Includes(ToLowerCase(error.message), msg)

\* The delay growing one step early: retryDelay * 2^attempt.
RetryDelayMs_Doubled(retryDelay, attempt) == retryDelay * (2 ^ attempt)

\* The delay slept after failed attempt number attempt.
RetryDelayMs(retryDelay, attempt) == retryDelay * (2 ^ (attempt - 1))

NoError == MkError("", "", <<>>)

\* withRetry before its first attempt.  A loop that runs no iteration
\* (retryAttempts < 1) falls through to the RetryExhaustedError at once.
RetryExhaustedError(retryAttempts, lastError) ==
  [name |-> "RetryExhaustedError", code |-> "",
   message |-> <<"A","l","l"," ">> \o DecStr(retryAttempts)
                 \o <<" ","a","t","t","e","m","p","t","s"," ","f","a","i","l","e","d">>,
   attempts |-> retryAttempts,
   originalError |-> IF lastError = NoError THEN <<>> ELSE <<lastError>>]

AgentErrorWrapping(error) ==
  [name |-> "AgentError", code |-> "",
   message |-> <<"N","o","n","-","r","e","t","r","y","a","b","l","e"," ",
                 "e","r","r","o","r",":"," ">> \o error.message,
   attempts |-> 0, originalError |-> <<error>>]

withRetryStart(retryAttempts, retryDelay) ==
  [attempt |-> 1, retryAttempts |-> retryAttempts, retryDelay |-> retryDelay,
   invocations |-> 0, delays |-> <<>>, errors |-> <<>>,
   result |-> IF 1 <= retryAttempts THEN "attempting" ELSE "thrown",
   value |-> "",
   thrown |-> IF 1 <= retryAttempts THEN NoError
              ELSE RetryExhaustedError(retryAttempts, NoError)]

\* The loop giving up one attempt early, and the loop going round once more
\* after the last attempt.
HasNextAttempt_OneShort(attempt, retryAttempts) == attempt + 1 < retryAttempts

HasNextAttempt_Inclusive(attempt, retryAttempts) == attempt <= retryAttempts

\* Whether the loop goes round again after a retryable failure of attempt.
HasNextAttempt(attempt, retryAttempts) == attempt < retryAttempts

\* What withRetry does with an error thrown by the operation.
RetryableFailure(r, error) ==
  IF HasNextAttempt(r.attempt, r.retryAttempts)
  THEN [r EXCEPT !.attempt = @ + 1,
                 !.delays = Append(@, RetryDelayMs(r.retryDelay, r.attempt))]
  ELSE [r EXCEPT !.attempt = @ + 1, !.result = "thrown",
                 !.thrown = RetryExhaustedError(r.retryAttempts, error)]

\* Every failure retried, whatever isRetryable says.
OnFailure_RetryAll(r, error) == RetryableFailure(r, error)

OnFailure(r, error) ==
  IF isRetryable(error)
  THEN RetryableFailure(r, error)
  ELSE [r EXCEPT !.result = "thrown", !.thrown = AgentErrorWrapping(error)]

\* One iteration of withRetry's loop: the operation ran and either returned
\* value (failed = FALSE) or threw error.
withRetryStep(r, failed, value, error) ==
  LET r1 == [r EXCEPT !.invocations = @ + 1]
  IN  IF ~failed
      THEN [r1 EXCEPT !.result = "success", !.value = value]
      ELSE OnFailure([r1 EXCEPT !.errors = Append(@, error)], error)

----------------------------------------------------------------------------
(* JSON.parse.  A value is returned in canonical text: no whitespace, the  *)
(* members of an object in insertion order with a repeated key keeping its *)
(* first place and its last value, a string's characters decoded and then  *)
(* written with only the quote and the backslash escaped.  Numbers are     *)
(* integers (no fraction, no exponent).                                    *)

\* The backtick: SANY's lexer admits none inside a string, so it is named.
Backtick == "backtick"

JSONWhitespace == {" ", "\n", "\t", "\r"}

\* \s of a regular expression and the characters String.prototype.trim strips.
RegExpSpace == JSONWhitespace \cup {"\f"}

\* Characters below code 32.
ControlChars == {"\n", "\t", "\r", "\f"}

Digits == {"0", "1", "2", "3", "4", "5", "6", "7", "8", "9"}

HexDigits == Digits \cup {"a", "b", "c", "d", "e", "f", "A", "B", "C", "D", "E", "F"}

\* The character at i, "" past either end of the text.
At(s, i) == IF i \in 1..Len(s) THEN s[i] ELSE ""

HasAt(s, i, w) == i >= 1 /\ i + Len(w) - 1 <= Len(s) /\ SubSeq(s, i, i + Len(w) - 1) = w

\* The first position at or after i that holds no character of space.
RECURSIVE SkipWs(_, _, _)
SkipWs(s, i, space) == IF At(s, i) \in space THEN SkipWs(s, i + 1, space) ELSE i

ParseFail == [ok |-> FALSE, pos |-> 0, val |-> <<>>, keys |-> {}]

\* The character an escape letter stands for, in canonical text.
Unescape(e) ==
  CASE e = "\"" -> <<"\\", "\"">>
    [] e = "\\" -> <<"\\", "\\">>
    [] e = "/" -> <<"/">>
    [] e = "b" -> <<"backspace">>
    [] e = "f" -> <<"\f">>
    [] e = "n" -> <<"\n">>
    [] e = "r" -> <<"\r">>
    [] OTHER -> <<"\t">>

SimpleEscapes == {"\"", "\\", "/", "b", "f", "n", "r", "t"}

\* The character of a \uXXXX escape; one this model has no name for stays
\* as its escape.
UnicodeEscape(hex) ==
  CASE hex = <<"0", "0", "0", "a">> -> <<"\n">>
    [] hex = <<"0", "0", "0", "d">> -> <<"\r">>
    [] hex = <<"0", "0", "0", "9">> -> <<"\t">>
    [] hex = <<"0", "0", "0", "c">> -> <<"\f">>
    [] OTHER -> <<"\\", "u">> \o hex

\* A string token whose opening quote is before i; acc is its content so far.
RECURSIVE ScanString(_, _, _)
ScanString(s, i, acc) ==
  LET c == At(s, i)
      e == At(s, i + 1)
  IN  IF c = "" \/ c \in ControlChars THEN ParseFail
      ELSE IF c = "\"" THEN [ok |-> TRUE, pos |-> i + 1,
                             val |-> <<"\"">> \o acc \o <<"\"">>, keys |-> {}]
      ELSE IF c = "\\"
      THEN (IF e \in SimpleEscapes THEN ScanString(s, i + 2, acc \o Unescape(e))
            ELSE IF e = "u" /\ \A k \in 2..5 : At(s, i + k) \in HexDigits
            THEN ScanString(s, i + 6, acc \o UnicodeEscape(SubSeq(s, i + 2, i + 5)))
            ELSE ParseFail)
      ELSE ScanString(s, i + 1, Append(acc, c))

RECURSIVE DigitsEnd(_, _)
DigitsEnd(s, i) == IF At(s, i) \in Digits THEN DigitsEnd(s, i + 1) ELSE i

ParseNumber(s, i) ==
  LET j == IF At(s, i) = "-" THEN i + 1 ELSE i
      k == IF At(s, j) = "0" THEN j + 1 ELSE DigitsEnd(s, j)
  IN  IF k = j THEN ParseFail
      ELSE [ok |-> TRUE, pos |-> k, val |-> SubSeq(s, i, k - 1), keys |-> {}]

ParseLiteral(s, i, word) ==
  IF HasAt(s, i, word)
  THEN [ok |-> TRUE, pos |-> i + Len(word), val |-> word, keys |-> {}]
  ELSE ParseFail

\* The members of an object with key set to its latest value.
PutMember(members, m) ==
  IF \E n \in 1..Len(members) : members[n].key = m.key
  THEN [n \in 1..Len(members) |-> IF members[n].key = m.key THEN m ELSE members[n]]
  ELSE Append(members, m)

RECURSIVE SerializeMembers(_, _)
SerializeMembers(members, n) ==
  IF n > Len(members) THEN <<>>
  ELSE (IF n > 1 THEN <<",">> ELSE <<>>)
         \o members[n].key \o <<":">> \o members[n].val
         \o SerializeMembers(members, n + 1)

\* The keys of an object and of everything nested in it; each with the
\* position of its closing quote in the text.
MemberKeys(members) ==
  UNION {members[n].keys \cup
           {[name |-> members[n].key, end |-> members[n].end]} : n \in 1..Len(members)}

RECURSIVE ParseValue(_, _), ParseElements(_, _, _, _), ParseMembers(_, _, _)

ParseValue(s, i0) ==
  LET i == SkipWs(s, i0, JSONWhitespace)
      c == At(s, i)
      j == SkipWs(s, i + 1, JSONWhitespace)
  IN  CASE c = "\"" -> ScanString(s, i + 1, <<>>)
        [] c = "[" -> IF At(s, j) = "]"
                      THEN [ok |-> TRUE, pos |-> j + 1, val |-> <<"[", "]">>, keys |-> {}]
                      ELSE ParseElements(s, i + 1, <<"[">>, {})
        [] c = "{" -> IF At(s, j) = "}"
                      THEN [ok |-> TRUE, pos |-> j + 1, val |-> <<"{", "}">>, keys |-> {}]
                      ELSE ParseMembers(s, i + 1, <<>>)
        [] c \in Digits \cup {"-"} -> ParseNumber(s, i)
        [] c = "t" -> ParseLiteral(s, i, <<"t", "r", "u", "e">>)
        [] c = "f" -> ParseLiteral(s, i, <<"f", "a", "l", "s", "e">>)
        [] c = "n" -> ParseLiteral(s, i, <<"n", "u", "l", "l">>)
        [] OTHER -> ParseFail

\* The elements of an array from i on; acc is the canonical text so far.
ParseElements(s, i, acc, keys) ==
  LET v    == ParseValue(s, i)
      k    == SkipWs(s, v.pos, JSONWhitespace)
      acc2 == acc \o v.val
  IN  IF ~v.ok THEN ParseFail
      ELSE IF At(s, k) = "," THEN ParseElements(s, k + 1, Append(acc2, ","), keys \cup v.keys)
      ELSE IF At(s, k) = "]"
      THEN [ok |-> TRUE, pos |-> k + 1, val |-> Append(acc2, "]"), keys |-> keys \cup v.keys]
      ELSE ParseFail

\* The members of an object from i on.
ParseMembers(s, i, members) ==
  LET j   == SkipWs(s, i, JSONWhitespace)
      key == IF At(s, j) = "\"" THEN ScanString(s, j + 1, <<>>) ELSE ParseFail
      c   == SkipWs(s, key.pos, JSONWhitespace)
      v   == ParseValue(s, c + 1)
      k   == SkipWs(s, v.pos, JSONWhitespace)
      ms  == PutMember(members, [key |-> key.val, end |-> key.pos - 1,
                                 val |-> v.val, keys |-> v.keys])
  IN  IF ~key.ok \/ At(s, c) # ":" THEN ParseFail
      ELSE IF ~v.ok THEN ParseFail
      ELSE IF At(s, k) = "," THEN ParseMembers(s, k + 1, ms)
      ELSE IF At(s, k) = "}"
      THEN [ok |-> TRUE, pos |-> k + 1,
            val |-> <<"{">> \o SerializeMembers(ms, 1) \o <<"}">>,
            keys |-> MemberKeys(ms)]
      ELSE ParseFail

\* JSON.parse(text): ok is FALSE where it throws a SyntaxError.
JSONParse(text) ==
  LET v == ParseValue(text, 1)
  IN  IF v.ok /\ SkipWs(text, v.pos, JSONWhitespace) = Len(text) + 1 THEN v ELSE ParseFail

----------------------------------------------------------------------------
(* BaseAgent.repairJSON and extractJSON.  Each regular-expression replace  *)
(* is a scan from the left for non-overlapping matches.                    *)

\* A replace scans the text from the left.  Its state is the output so far
\* and the position up to which the last match has consumed the text; the
\* scan of a range of positions is split in halves.

ScanStart == [result |-> <<>>, next |-> 1]

\* Op applied to v, with v computed first.
Then(v, Op(_)) == CHOOSE r \in {Op(x) : x \in {v}} : TRUE

\* 1. /,(\s*[\]}])/g -> "$1"
RemoveTrailingCommaAt(s, st, i) ==
  LET k == SkipWs(s, i + 1, RegExpSpace)
  IN  IF i < st.next THEN st
      ELSE IF s[i] = "," /\ At(s, k) \in {"]", "}"}
      THEN [result |-> st.result \o SubSeq(s, i + 1, k), next |-> k + 1]
      ELSE [result |-> Append(st.result, s[i]), next |-> i + 1]

RECURSIVE RemoveTrailingCommas(_, _, _, _)
RemoveTrailingCommas(s, lo, hi, st) ==
  IF lo > hi THEN st
  ELSE IF lo = hi THEN RemoveTrailingCommaAt(s, st, lo)
  ELSE Then(RemoveTrailingCommas(s, lo, (lo + hi) \div 2, st),
            LAMBDA left : RemoveTrailingCommas(s, (lo + hi) \div 2 + 1, hi, left))

\* The length of  "|\d|true|false|null|\]|\}  matched at i, 0 when none does.
ValueEndLen(s, i) ==
  CASE At(s, i) \in {"\"", "]", "}"} \cup Digits -> 1
    [] HasAt(s, i, <<"t", "r", "u", "e">>) -> 4
    [] HasAt(s, i, <<"f", "a", "l", "s", "e">>) -> 5
    [] HasAt(s, i, <<"n", "u", "l", "l">>) -> 4
    [] OTHER -> 0

\* 2. /("|\d|true|false|null|\]|\})(\s*\n\s*)("|\[|\{)/g -> "$1,$2$3"
InsertMissingCommaAt(s, st, i) ==
  LET n == ValueEndLen(s, i)
      k == SkipWs(s, i + n, RegExpSpace)
  IN  IF i < st.next THEN st
      ELSE IF n > 0 /\ (\E m \in (i + n)..(k - 1) : s[m] = "\n")
                    /\ At(s, k) \in {"\"", "[", "{"}
      THEN [result |-> st.result \o SubSeq(s, i, i + n - 1) \o <<",">>
                         \o SubSeq(s, i + n, k),
            next |-> k + 1]
      ELSE [result |-> Append(st.result, s[i]), next |-> i + 1]

RECURSIVE InsertMissingCommas(_, _, _, _)
InsertMissingCommas(s, lo, hi, st) ==
  IF lo > hi THEN st
  ELSE IF lo = hi THEN InsertMissingCommaAt(s, st, lo)
  ELSE Then(InsertMissingCommas(s, lo, (lo + hi) \div 2, st),
            LAMBDA left : InsertMissingCommas(s, (lo + hi) \div 2 + 1, hi, left))

\* 3-6. /<close>(\s*)<open>/g -> "<close>,$1<open>"
InsertCommaBetweenAt(s, st, i, close, open) ==
  LET k == SkipWs(s, i + 1, RegExpSpace)
  IN  IF i < st.next THEN st
      ELSE IF s[i] = close /\ At(s, k) = open
      THEN [result |-> st.result \o <<close, ",">> \o SubSeq(s, i + 1, k), next |-> k + 1]
      ELSE [result |-> Append(st.result, s[i]), next |-> i + 1]

RECURSIVE InsertCommaBetween(_, _, _, _, _, _)
InsertCommaBetween(s, lo, hi, st, close, open) ==
  IF lo > hi THEN st
  ELSE IF lo = hi THEN InsertCommaBetweenAt(s, st, lo, close, open)
  ELSE Then(InsertCommaBetween(s, lo, (lo + hi) \div 2, st, close, open),
            LAMBDA left : InsertCommaBetween(s, (lo + hi) \div 2 + 1, hi, left, close, open))

\* 7. /,\s*,/g -> ","
CollapseCommaAt(s, st, i) ==
  LET k == SkipWs(s, i + 1, RegExpSpace)
  IN  IF i < st.next THEN st
      ELSE IF s[i] = "," /\ At(s, k) = ","
      THEN [result |-> Append(st.result, ","), next |-> k + 1]
      ELSE [result |-> Append(st.result, s[i]), next |-> i + 1]

RECURSIVE CollapseCommas(_, _, _, _)
CollapseCommas(s, lo, hi, st) ==
  IF lo > hi THEN st
  ELSE IF lo = hi THEN CollapseCommaAt(s, st, lo)
  ELSE Then(CollapseCommas(s, lo, (lo + hi) \div 2, st),
            LAMBDA left : CollapseCommas(s, (lo + hi) \div 2 + 1, hi, left))

\* "\\u" + char.charCodeAt(0).toString(16).padStart(4, "0"); the form feed is
\* the one control character of this model that has no short escape.
UnicodeEscapeOf(char) == <<"\\", "u", "0", "0", "0", "c">>

\* The body of fixStringEscaping's loop for one character.
FixChar(st, char) ==
  IF st.escapeNext
  THEN [st EXCEPT !.result = Append(@, char), !.escapeNext = FALSE]
  ELSE IF char = "\\" THEN [st EXCEPT !.result = Append(@, char), !.escapeNext = TRUE]
  ELSE IF char = "\"" THEN [st EXCEPT !.result = Append(@, char), !.inString = ~@]
  ELSE IF st.inString /\ char = "\n" THEN [st EXCEPT !.result = @ \o <<"\\", "n">>]
  ELSE IF st.inString /\ char = "\r" THEN [st EXCEPT !.result = @ \o <<"\\", "r">>]
  ELSE IF st.inString /\ char = "\t" THEN [st EXCEPT !.result = @ \o <<"\\", "t">>]
  ELSE IF st.inString /\ char \in ControlChars
  THEN [st EXCEPT !.result = @ \o UnicodeEscapeOf(char)]
  ELSE [st EXCEPT !.result = Append(@, char)]

\* fixStringEscaping's loop over the characters lo..hi, split in halves.
RECURSIVE FixRange(_, _, _, _)
FixRange(s, lo, hi, st) ==
  IF lo > hi THEN st
  ELSE IF lo = hi THEN FixChar(st, s[lo])
  ELSE Then(FixRange(s, lo, (lo + hi) \div 2, st),
            LAMBDA left : FixRange(s, (lo + hi) \div 2 + 1, hi, left))

fixStringEscaping(jsonStr) ==
  FixRange(jsonStr, 1, Len(jsonStr),
           [result |-> <<>>, inString |-> FALSE, escapeNext |-> FALSE]).result

\* The body of closeOpenBrackets's loop for one character: the stack of
\* closers still owed (top last) and whether a string is open.
BracketChar(st, char) ==
  IF st.escapeNext THEN [st EXCEPT !.escapeNext = FALSE]
  ELSE IF char = "\\" THEN [st EXCEPT !.escapeNext = TRUE]
  ELSE IF char = "\"" THEN [st EXCEPT !.inString = ~@]
  ELSE IF st.inString THEN st
  ELSE IF char = "{" THEN [st EXCEPT !.stack = Append(@, "}")]
  ELSE IF char = "[" THEN [st EXCEPT !.stack = Append(@, "]")]
  ELSE IF char \in {"}", "]"} /\ Len(st.stack) > 0 /\ st.stack[Len(st.stack)] = char
  THEN [st EXCEPT !.stack = SubSeq(@, 1, Len(@) - 1)]
  ELSE st

RECURSIVE BracketRange(_, _, _, _)
BracketRange(s, lo, hi, st) ==
  IF lo > hi THEN st
  ELSE IF lo = hi THEN BracketChar(st, s[lo])
  ELSE Then(BracketRange(s, lo, (lo + hi) \div 2, st),
            LAMBDA left : BracketRange(s, (lo + hi) \div 2 + 1, hi, left))

BracketScan(s) ==
  BracketRange(s, 1, Len(s), [stack |-> <<>>, inString |-> FALSE, escapeNext |-> FALSE])

Reverse(q) == [n \in 1..Len(q) |-> q[Len(q) + 1 - n]]

closeOpenBrackets(jsonStr) ==
  LET scan == BracketScan(jsonStr)
  IN  jsonStr \o (IF scan.inString THEN <<"\"">> ELSE <<>>) \o Reverse(scan.stack)

repairJSON(jsonStr) ==
  LET r1 == RemoveTrailingCommas(jsonStr, 1, Len(jsonStr), ScanStart).result
      r2 == InsertMissingCommas(r1, 1, Len(r1), ScanStart).result
      r3 == InsertCommaBetween(r2, 1, Len(r2), ScanStart, "}", "{").result
      r4 == InsertCommaBetween(r3, 1, Len(r3), ScanStart, "]", "[").result
      r5 == InsertCommaBetween(r4, 1, Len(r4), ScanStart, "]", "{").result
      r6 == InsertCommaBetween(r5, 1, Len(r5), ScanStart, "}", "[").result
      r7 == CollapseCommas(r6, 1, Len(r6), ScanStart).result
      r8 == fixStringEscaping(r7)
  IN  closeOpenBrackets(r8)

Fence == <<Backtick, Backtick, Backtick>>

\* String.prototype.trim
Trim(s) ==
  LET kept == {i \in 1..Len(s) : s[i] \notin RegExpSpace}
  IN  IF kept = {} THEN <<>>
      ELSE SubSeq(s, CHOOSE i \in kept : \A j \in kept : i <= j,
                     CHOOSE i \in kept : \A j \in kept : i >= j)

\* The positions at or after from where w occurs in s.
Occurrences(s, w, from) == {i \in from..Len(s) : HasAt(s, i, w)}

\* /```(?:json)?\s*([\s\S]*?)```/ tried at the fence that starts at i: the
\* capture runs from after the tag and the space to the next fence.
CodeBlockAt(s, i) ==
  LET tag    == IF HasAt(s, i + 3, <<"j", "s", "o", "n">>) THEN i + 7 ELSE i + 3
      from   == SkipWs(s, tag, RegExpSpace)
      closes == Occurrences(s, Fence, from)
      close  == CHOOSE j \in closes : \A k \in closes : j <= k
  IN  IF closes = {} THEN [found |-> FALSE, text |-> <<>>]
      ELSE [found |-> TRUE, text |-> SubSeq(s, from, close - 1)]

\* responseText.match(/```(?:json)?\s*([\s\S]*?)```/): the leftmost match.
CodeBlockMatch(s) ==
  LET starts == {i \in Occurrences(s, Fence, 1) : CodeBlockAt(s, i).found}
  IN  IF starts = {} THEN [found |-> FALSE, text |-> <<>>]
      ELSE CodeBlockAt(s, CHOOSE i \in starts : \A j \in starts : i <= j)

\* responseText.match(/\{[\s\S]*\}/): from the first "{" to the last "}".
ObjectMatch(s) ==
  LET opens  == Occurrences(s, <<"{">>, 1)
      first  == CHOOSE i \in opens : \A j \in opens : i <= j
      closes == Occurrences(s, <<"}">>, first + 1)
      last   == CHOOSE i \in closes : \A j \in closes : i >= j
  IN  IF opens = {} THEN [found |-> FALSE, text |-> <<>>]
      ELSE IF closes = {} THEN [found |-> FALSE, text |-> <<>>]
      ELSE [found |-> TRUE, text |-> SubSeq(s, first, last)]

\* extractJSON: the parsed value in canonical text, or the AgentError it
\* throws ("extract": no JSON found; "parse": the repaired text fails too).
extractJSON(responseText) ==
  LET codeBlockMatch == CodeBlockMatch(responseText)
      jsonMatch      == ObjectMatch(responseText)
      jsonStr        == IF codeBlockMatch.found THEN Trim(codeBlockMatch.text)
                        ELSE jsonMatch.text
      direct         == JSONParse(jsonStr)
      repaired       == JSONParse(repairJSON(jsonStr))
  IN  IF jsonStr = <<>>
      THEN [threw |-> TRUE, error |-> "extract", value |-> <<>>, repaired |-> FALSE]
      ELSE IF direct.ok
      THEN [threw |-> FALSE, error |-> "", value |-> direct.val, repaired |-> FALSE]
      ELSE IF repaired.ok
      THEN [threw |-> FALSE, error |-> "", value |-> repaired.val, repaired |-> TRUE]
      ELSE [threw |-> TRUE, error |-> "parse", value |-> <<>>, repaired |-> FALSE]

----------------------------------------------------------------------------
(* ClaudeClassifier: the mock classification of dry-run mode, the merge of *)
(* the documents' classifications into the slide-organised result and the  *)
(* aggregate gap analysis.  Slide types, content types and content are     *)
(* text; a score is counted in tenths and a completeness in hundredths.    *)
(* The timestamps and the digests of the story and the style guide are     *)
(* left out of the result.                                                 *)

\* title, purpose, problem, solution, whyNow, marketSize, competition,
\* product, businessModel, traction, team, ask
SLIDE_TYPES ==
  << <<"t", "i", "t", "l", "e">>,
     <<"p", "u", "r", "p", "o", "s", "e">>,
     <<"p", "r", "o", "b", "l", "e", "m">>,
     <<"s", "o", "l", "u", "t", "i", "o", "n">>,
     <<"w", "h", "y", "N", "o", "w">>,
     <<"m", "a", "r", "k", "e", "t", "S", "i", "z", "e">>,
     <<"c", "o", "m", "p", "e", "t", "i", "t", "i", "o", "n">>,
     <<"p", "r", "o", "d", "u", "c", "t">>,
     <<"b", "u", "s", "i", "n", "e", "s", "s", "M", "o", "d", "e", "l">>,
     <<"t", "r", "a", "c", "t", "i", "o", "n">>,
     <<"t", "e", "a", "m">>,
     <<"a", "s", "k">> >>

SlideSet == {SLIDE_TYPES[n] : n \in 1..Len(SLIDE_TYPES)}

\* The entries of analyzeAggregateGaps' criticalRequirements, in order.
criticalRequirements ==
  << [slide |-> <<"t", "i", "t", "l", "e">>,
      reqs |-> << <<"c", "o", "m", "p", "a", "n", "y", "_", "n", "a", "m", "e">>,
                  <<"t", "a", "g", "l", "i", "n", "e">> >>],
     [slide |-> <<"p", "r", "o", "b", "l", "e", "m">>,
      reqs |-> << <<"p", "a", "i", "n", "_", "p", "o", "i", "n", "t">>,
                  <<"s", "t", "a", "t", "i", "s", "t", "i", "c">> >>],
     [slide |-> <<"s", "o", "l", "u", "t", "i", "o", "n">>,
      reqs |-> << <<"v", "a", "l", "u", "e", "_", "p", "r", "o", "p", "o", "s", "i", "t", "i", "o", "n">>,
                  <<"f", "e", "a", "t", "u", "r", "e">> >>],
     [slide |-> <<"w", "h", "y", "N", "o", "w">>,
      reqs |-> << <<"t", "i", "m", "i", "n", "g", "_", "f", "a", "c", "t", "o", "r">>,
                  <<"t", "r", "e", "n", "d">> >>],
     [slide |-> <<"m", "a", "r", "k", "e", "t", "S", "i", "z", "e">>,
      reqs |-> << <<"t", "a", "m">>,
                  <<"s", "a", "m">>,
                  <<"m", "a", "r", "k", "e", "t", "_", "s", "i", "z", "e">>,
                  <<"m", "a", "r", "k", "e", "t">> >>],
     [slide |-> <<"c", "o", "m", "p", "e", "t", "i", "t", "i", "o", "n">>,
      reqs |-> << <<"c", "o", "m", "p", "e", "t", "i", "t", "o", "r">>,
                  <<"d", "i", "f", "f", "e", "r", "e", "n", "t", "i", "a", "t", "i", "o", "n">> >>],
     [slide |-> <<"p", "r", "o", "d", "u", "c", "t">>,
      reqs |-> << <<"f", "e", "a", "t", "u", "r", "e">>,
                  <<"c", "a", "p", "a", "b", "i", "l", "i", "t", "y">> >>],
     [slide |-> <<"b", "u", "s", "i", "n", "e", "s", "s", "M", "o", "d", "e", "l">>,
      reqs |-> << <<"r", "e", "v", "e", "n", "u", "e", "_", "m", "o", "d", "e", "l">>,
                  <<"p", "r", "i", "c", "i", "n", "g">>,
                  <<"u", "n", "i", "t", "_", "e", "c", "o", "n", "o", "m", "i", "c", "s">> >>],
     [slide |-> <<"t", "r", "a", "c", "t", "i", "o", "n">>,
      reqs |-> << <<"m", "e", "t", "r", "i", "c">>,
                  <<"m", "i", "l", "e", "s", "t", "o", "n", "e">>,
                  <<"c", "u", "s", "t", "o", "m", "e", "r">> >>],
     [slide |-> <<"t", "e", "a", "m">>,
      reqs |-> << <<"f", "o", "u", "n", "d", "e", "r">>,
                  <<"e", "x", "e", "c", "u", "t", "i", "v", "e">>,
                  <<"b", "a", "c", "k", "g", "r", "o", "u", "n", "d">>,
                  <<"b", "i", "o">> >>],
     [slide |-> <<"a", "s", "k">>,
      reqs |-> << <<"f", "u", "n", "d", "i", "n", "g", "_", "a", "m", "o", "u", "n", "t">>,
                  <<"u", "s", "e", "_", "o", "f", "_", "f", "u", "n", "d", "s">> >>] >>

\* The name of the n-th extracted text file.
FileName(n) == <<"d", "o", "c", ToString(n), ".", "t", "x", "t">>

\* A mock whose content carries no tag.
generateMockClassification_Untagged(filename) ==
  [documentAnalysis |-> [filename |-> filename], conflicts |-> <<>>,
   missingCritical |-> <<>>,
   slideRelevance |->
     [slideType \in SlideSet |->
        [score |-> 5,
         extractedContent |->
           <<[type |-> <<"m", "o", "c", "k">>,
              content |-> <<"M", "o", "c", "k">>, confidence |-> 5]>>]]]

generateMockClassification(filename) ==
  [documentAnalysis |-> [filename |-> filename, type |-> <<"m", "o", "c", "k">>, dryRun |-> TRUE],
   slideRelevance |->
     [slideType \in SlideSet |->
        [score |-> 5,
         extractedContent |->
           <<[type |-> <<"m", "o", "c", "k">>,
              content |-> <<"[", "D", "R", "Y", "-", "R", "U", "N", "]", " ", "M", "o", "c", "k", " ", "c", "o", "n", "t", "e", "n", "t", " ", "f", "o", "r", " ">>
                            \o slideType \o <<" ", "f", "r", "o", "m", " ">> \o filename,
              confidence |-> 5]>>]],
   conflicts |-> <<>>,
   missingCritical |-> <<>>]

\* classifySingleDocument's result for a response that extractJSON parsed to
\* an object without slideRelevance: the file name is added to it.
ParsedClassification(filename) ==
  [documentAnalysis |-> [filename |-> filename], slideRelevance |-> <<>>,
   conflicts |-> <<>>, missingCritical |-> <<>>]

analyzeAggregateGaps(slides) ==
  LET ReplaceFirst(req) ==
        IF \E k \in 1..Len(req) : req[k] = "_"
        THEN LET k == CHOOSE j \in 1..Len(req) :
                        req[j] = "_" /\ \A i \in 1..(j - 1) : req[i] # "_"
             IN  [req EXCEPT ![k] = " "]
        ELSE req
      RECURSIVE Join(_, _)
      Join(items, n) ==
        IF n > Len(items) THEN <<>>
        ELSE (IF n > 1 THEN <<" ">> ELSE <<>>) \o ToLowerCase(items[n].content)
               \o Join(items, n + 1)
      GapsOf(entry) ==
        LET slide        == slides[entry.slide]
            contentTypes == [n \in 1..Len(slide.allContent) |->
                               ToLowerCase(slide.allContent[n].type)]
            contentText  == Join(slide.allContent, 1)
            hasContent   == Len(slide.allContent) > 0
            hasHighQualitySource ==
              \E n \in 1..Len(slide.relevantSources) :
                slide.relevantSources[n].relevanceScore > 7
            hasReq(req)  ==
              \/ \E n \in 1..Len(contentTypes) : Includes(contentTypes[n], req)
              \/ Includes(contentText, ReplaceFirst(req))
            limited      ==
              SelectSeq(entry.reqs,
                        LAMBDA req : ~hasReq(req) /\ Len(slide.allContent) < 2)
        IN  IF entry.slide \notin DOMAIN slides THEN <<>>
            ELSE IF ~hasContent /\ ~hasHighQualitySource
            THEN <<entry.slide \o <<":", " ", "N", "o", " ", "c", "o", "n", "t", "e", "n", "t", " ", "f", "o", "u", "n", "d">>>>
            ELSE IF slide.dataQuality.completeness < 30
            THEN [n \in 1..Len(limited) |->
                    entry.slide \o <<":", " ", "L", "i", "m", "i", "t", "e", "d", " ">> \o ReplaceFirst(limited[n])
                      \o <<" ", "i", "n", "f", "o", "r", "m", "a", "t", "i", "o", "n">>]
            ELSE <<>>
      RECURSIVE Gaps(_)
      Gaps(n) ==
        IF n > Len(criticalRequirements) THEN <<>>
        ELSE GapsOf(criticalRequirements[n]) \o Gaps(n + 1)
      gaps == Gaps(1)
      uniqueGaps ==
        SelectSeq([n \in 1..Len(gaps) |-> [gap |-> gaps[n], at |-> n]],
                  LAMBDA g : \A k \in 1..(g.at - 1) : gaps[k] # g.gap)
  IN  [n \in 1..(IF Len(uniqueGaps) < 10 THEN Len(uniqueGaps) ELSE 10) |->
         uniqueGaps[n].gap]

mergeClassifications(classifications, totalCost) ==
  LET filenameOf(c) == c.documentAnalysis.filename
      Relevant(slideType) ==
        SelectSeq(classifications,
                  LAMBDA c : /\ slideType \in DOMAIN c.slideRelevance
                             /\ c.slideRelevance[slideType].score > 3)
      OfTypes(items, types) == SelectSeq(items, LAMBDA c : c.type \in types)
      Source(c, slideType) ==
        LET content == c.slideRelevance[slideType].extractedContent
        IN  [filename |-> filenameOf(c),
             relevanceScore |-> c.slideRelevance[slideType].score,
             extractedFacts |-> OfTypes(content, {<<"f", "a", "c", "t">>, <<"s", "t", "a", "t", "i", "s", "t", "i", "c">>}),
             quotes |-> OfTypes(content, {<<"q", "u", "o", "t", "e">>}),
             metrics |-> OfTypes(content, {<<"m", "e", "t", "r", "i", "c">>, <<"s", "t", "a", "t", "i", "s", "t", "i", "c">>}),
             allContent |-> content]
      RECURSIVE AllContent(_, _, _)
      AllContent(cs, slideType, n) ==
        IF n > Len(cs) THEN <<>>
        ELSE LET content == cs[n].slideRelevance[slideType].extractedContent
             IN  [k \in 1..Len(content) |->
                    content[k] @@ [source |-> filenameOf(cs[n])]]
                   \o AllContent(cs, slideType, n + 1)
      \* Array.prototype.sort by descending relevanceScore: stable.
      RECURSIVE Sorted(_)
      Sorted(sources) ==
        IF sources = <<>> THEN <<>>
        ELSE LET top  == CHOOSE n \in 1..Len(sources) :
                           /\ \A k \in 1..Len(sources) :
                                sources[k].relevanceScore <= sources[n].relevanceScore
                           /\ \A k \in 1..(n - 1) :
                                sources[k].relevanceScore < sources[n].relevanceScore
                 rest == [k \in 1..(Len(sources) - 1) |->
                            IF k < top THEN sources[k] ELSE sources[k + 1]]
             IN  <<sources[top]>> \o Sorted(rest)
      RECURSIVE Sum(_, _)
      Sum(sources, n) ==
        IF n > Len(sources) THEN 0 ELSE sources[n].relevanceScore + Sum(sources, n + 1)
      RECURSIVE Conflicts(_)
      Conflicts(n) ==
        IF n > Len(classifications) THEN <<>>
        ELSE classifications[n].conflicts \o Conflicts(n + 1)
      Slide(slideType) ==
        LET cs      == Relevant(slideType)
            sources == [n \in 1..Len(cs) |-> Source(cs[n], slideType)]
        IN  [relevantSources |-> Sorted(sources),
             allContent |-> AllContent(cs, slideType, 1),
             conflicts |-> <<>>,
             dataQuality |->
               [completeness |-> IF Len(sources) > 0
                                 THEN (IF Len(sources) >= 3 THEN 100
                                       ELSE (100 * Len(sources)) \div 3)
                                 ELSE 0,
                sourceCount |-> Len(sources),
                avgConfidence |-> IF Len(sources) > 0
                                  THEN Sum(sources, 1) \div Len(sources)
                                  ELSE 0]]
      slides == [slideType \in SlideSet |-> Slide(slideType)]
  IN  [metadata |-> [totalDocuments |-> Len(classifications),
                     costIncurred |-> totalCost],
       slides |-> slides,
       globalConflicts |-> Conflicts(1),
       missingCritical |-> analyzeAggregateGaps(slides)]

----------------------------------------------------------------------------
(* The run: its configuration, the provider's possible answers.            *)

\* Bounds of the model.
MaxDocs == 2
MaxImages == 2

Agents == {"classifier", "generator", "imageGenerator"}

Provider(agent) == IF agent = "classifier" THEN "anthropic" ELSE "google"

Model(agent) ==
  CASE agent = "classifier" -> "claude-sonnet-4-20250514"
    [] agent = "generator" -> "gemini-3-pro-preview"
    [] OTHER -> "gemini-3-pro-image-preview"

\* config.maxCost as configured, in cost units; 0 stands for "not set".
\* 500 units are 0.0125 dollars, 20000000 units are 500 dollars.
MaxCostChoices == {0, 500, 20000000}

\* config.retryAttempts (imageConfig.maxRetries for the image generator) as
\* configured; 0 stands for "not set".
RetryAttemptsChoices == {0, 1, 2}

\* config.maxCost || 50.0
EffectiveMaxCost(configured) == IF configured = 0 THEN DefaultMaxCost ELSE configured

\* maxRetries of IMAGE_GENERATION_CONFIG and its baseBackoffMs.
ImageMaxRetries == 5
ImageBaseBackoffMs == 3000

\* config.retryAttempts || 3; the image generator overrides it by
\* imageConfig.maxRetries (5 unless configured).  0 stands for "not set".
EffectiveRetryAttempts(agent, configured) ==
  IF agent = "imageGenerator"
  THEN (IF configured = 0 THEN ImageMaxRetries ELSE configured)
  ELSE (IF configured = 0 THEN DefaultRetryAttempts ELSE configured)

EffectiveRetryDelay(agent) ==
  IF agent = "imageGenerator" THEN ImageBaseBackoffMs ELSE DefaultRetryDelay

\* Token counts (thousands of input tokens, thousands of output tokens) a
\* call may report.  The image generator always books 1000 output tokens.
UsageChoices(agent) ==
  CASE agent = "classifier" -> {<<2, 0>>, <<0, 17000>>}
    [] agent = "generator" -> {<<1, 0>>, <<0, 17000>>}
    [] OTHER -> {<<10, 1>>, <<50, 1>>}

E_ConnReset ==
  MkError("Error", "ECONNRESET", <<"s","o","c","k","e","t"," ","h","a","n","g"," ","u","p">>)
E_InvalidKey ==
  MkError("Error", "invalid_api_key",
          <<"I","n","v","a","l","i","d"," ","A","P","I"," ","k","e","y">>)
E_NotSupported ==
  MkError("Error", "",
          <<"I","m","a","g","e"," ","o","u","t","p","u","t"," ",
            "n","o","t"," ","s","u","p","p","o","r","t","e","d">>)

\* The errors a provider call may fail with; "not supported" is the image
\* model's answer to a request it cannot serve.
ProviderErrors(agent) ==
  IF agent = "imageGenerator" THEN {E_ConnReset, E_InvalidKey, E_NotSupported}
  ELSE {E_ConnReset, E_InvalidKey}

\* What a response carries: text that parses as JSON or does not; for the
\* image generator a payload, or no inline data at all.
Bodies(agent) ==
  IF agent = "imageGenerator" THEN {"png", "jpeg", "small", "badmagic"}
  ELSE {"json", "garbage"}

\* The text of a response body: a fenced JSON object, or prose with no JSON.
ResponseText(body) ==
  IF body = "json"
  THEN Fence \o <<"j", "s", "o", "n", "\n", "{", "\"", "a", "\"", ":", "1", "}", "\n">> \o Fence
  ELSE <<"s", "o", "r", "r", "y">>

ProviderOutcomes(agent) ==
  {[failed |-> TRUE, error |-> e, usage |-> <<0, 0>>, body |-> ""] :
     e \in ProviderErrors(agent)}
  \cup {[failed |-> FALSE, error |-> NoError, usage |-> u, body |-> b] :
          u \in UsageChoices(agent), b \in Bodies(agent)}
  \cup (IF agent = "imageGenerator"
        THEN {[failed |-> FALSE, error |-> NoError, usage |-> <<0, 0>>, body |-> "none"]}
        ELSE {})

\* The operation handed to withRetry, after the provider answered o: what it
\* returns or throws, and the tracker it leaves.  callNanoBanana's own catch
\* turns a "not supported" error into the placeholder image.
Operation(agent, t, o) ==
  LET used == addUsage(t, Provider(agent), Model(agent), o.usage[1], o.usage[2])
      raw  == IF o.failed
              THEN [failed |-> TRUE, value |-> "", error |-> o.error,
                    tracker |-> t, hit |-> FALSE]
              ELSE IF agent = "imageGenerator" /\ o.body = "none"
              THEN [failed |-> TRUE, value |-> "",
                    error |-> MkError("AgentError", "",
                               <<"N","o"," ","i","m","a","g","e"," ","d","a","t","a">>),
                    tracker |-> t, hit |-> FALSE]
              ELSE IF used.threw
              THEN [failed |-> TRUE, value |-> "", error |-> used.error,
                    tracker |-> used.tracker, hit |-> TRUE]
              ELSE [failed |-> FALSE, value |-> o.body, error |-> NoError,
                    tracker |-> used.tracker, hit |-> FALSE]
  IN  IF agent = "imageGenerator" /\ raw.failed
         /\ Includes(raw.error.message, <<"n","o","t"," ","s","u","p","p","o","r","t","e","d">>)
      THEN [raw EXCEPT !.failed = FALSE, !.value = "placeholder", !.error = NoError]
      ELSE raw

\* The decoded payload of a response body: its length in bytes and the hex of
\* its first four bytes.  The placeholder is the 1077-byte PNG of
\* generateBasicPlaceholder.
MinImageBytes == 1024
\* A placeholder cut short of the minimum size.
PlaceholderBytes_Truncated == MinImageBytes - 2

PlaceholderBytes == 1077

Payload(body) ==
  CASE body = "png" -> [size |-> 2048, header |-> <<"89", "50", "4e", "47">>]
    [] body = "jpeg" -> [size |-> 2048, header |-> <<"ff", "d8", "ff", "e0">>]
    [] body = "small" -> [size |-> 512, header |-> <<"89", "50", "4e", "47">>]
    [] body = "badmagic" -> [size |-> 2048, header |-> <<"47", "49", "46", "38">>]
    [] OTHER -> [size |-> PlaceholderBytes, header |-> <<"89", "50", "4e", "47">>]

validateImageData(body) ==
  LET buffer == Payload(body)
  IN  IF buffer.size < MinImageBytes THEN FALSE
      ELSE IF buffer.header # <<"89", "50", "4e", "47">>
              /\ SubSeq(buffer.header, 1, 2) # <<"ff", "d8">> THEN FALSE
      ELSE TRUE

----------------------------------------------------------------------------
(* The state machine.                                                      *)

DocKinds == {"long", "short"}

DocLists == UNION {[1..n -> DocKinds] : n \in 1..MaxDocs}

Configs ==
  [phase : {"classify", "final"}, dryRun : BOOLEAN, apiKey : BOOLEAN,
   inputsPresent : BOOLEAN, skipImages : BOOLEAN,
   maxCost : MaxCostChoices, retryAttempts : RetryAttemptsChoices,
   docs : DocLists]

\* No withRetry call is in progress.
IdleRetry ==
  [attempt |-> 0, retryAttempts |-> 0, retryDelay |-> 0, invocations |-> 0,
   delays |-> <<>>, errors |-> <<>>, result |-> "idle", value |-> "",
   thrown |-> NoError]

\* No text is with the repair parser.
IdleJSON ==
  [doc |-> <<>>, cut |-> 0, wrap |-> "none", text |-> <<>>, stage |-> "idle",
   out |-> [threw |-> FALSE, error |-> "", value |-> <<>>, repaired |-> FALSE,
            text |-> <<>>]]

\* The run before main starts.
IdleRun ==
  /\ pc = "start"
  /\ tracker = [a \in Agents |-> NewCostTracker(DefaultMaxCost)]
  /\ retry = IdleRetry
  /\ idx = 0
  /\ calls = [a \in Agents |-> 0]
  /\ limitHit = [a \in Agents |-> FALSE]
  /\ raisedKinds = {}
  /\ work = [classified |-> 0, failed |-> 0, images |-> 0, generated |-> <<>>,
             written |-> {}, classifications |-> <<>>, clients |-> {},
             constructed |-> {}]
  /\ out = [exitCode |-> -1, completed |-> FALSE, files |-> {}, result |-> <<>>]

Init ==
  /\ cfg \in Configs
  /\ (cfg.phase = "final" => cfg.docs = <<"long">>)
  /\ (cfg.phase = "classify" => ~cfg.skipImages)
  /\ json = IdleJSON /\ merge = Idle /\ deck = Idle /\ driver = Idle /\ img = Idle /\ extract = Idle /\ logger = Idle
  /\ IdleRun

\* A validation that does not look at the credential.
validateInputs_NoKeyCheck(c) == ~c.inputsPresent

\* validateInputs of a phase script: whether it reports any error.
validateInputs(c) == ~c.inputsPresent \/ (~c.dryRun /\ ~c.apiKey)

\* new <Agent>(config): BaseAgent's constructor makes the agent's tracker.
Construct(agent) ==
  [tracker EXCEPT ![agent] = NewCostTracker(EffectiveMaxCost(cfg.maxCost))]

StartRetry(agent) ==
  withRetryStart(EffectiveRetryAttempts(agent, cfg.retryAttempts),
                 EffectiveRetryDelay(agent))

\* The catch of a phase script's main: print the failure, exit 1.
Fail == out' = [out EXCEPT !.exitCode = 1]

\* 02-classify-context.js main, up to classifier.execute.
ClassifyMain ==
  /\ pc = "start" /\ cfg.phase = "classify"
  /\ IF validateInputs(cfg)
     THEN /\ Fail /\ pc' = "exited"
          /\ UNCHANGED <<tracker, work>>
     ELSE /\ tracker' = Construct("classifier")
          /\ work' = [work EXCEPT !.constructed = @ \cup {"classifier"}]
          /\ pc' = "toc"
          /\ UNCHANGED out
  /\ UNCHANGED <<json, merge, deck, driver, img, extract, logger, cfg, retry, idx, calls, limitHit, raisedKinds>>

\* agent.initClient() at the head of execute, unless shouldSkipAPICall().
InitClient(agent) ==
  [work EXCEPT !.clients = IF cfg.dryRun THEN @ ELSE @ \cup {agent}]

\* ClaudeClassifier.execute from its start, and generateTableOfContents up
\* to its withRetry.
GenerateTOC ==
  /\ pc = "toc"
  /\ work' = InitClient("classifier")
  /\ IF cfg.dryRun
     THEN /\ out' = [out EXCEPT !.files = @ \cup {"table-of-contents.json"}]
          /\ pc' = "docLoop" /\ idx' = 1
          /\ UNCHANGED retry
     ELSE /\ retry' = StartRetry("classifier")
          /\ pc' = "tocRetry"
          /\ UNCHANGED <<out, idx>>
  /\ UNCHANGED <<json, merge, deck, driver, img, extract, logger, cfg, tracker, calls, limitHit, raisedKinds>>

AgentAt(p) ==
  CASE p \in {"tocRetry", "docRetry"} -> "classifier"
    [] p = "textRetry" -> "generator"
    [] OTHER -> "imageGenerator"

RetryPcs == {"tocRetry", "docRetry", "textRetry", "imageRetry"}

\* The kind of the error a finished withRetry threw.
ThrownKind(r) ==
  IF r.thrown.name = "RetryExhaustedError" THEN "RetryExhaustedError"
  ELSE IF r.thrown.originalError[1].name = "Error" THEN "ProviderError"
  ELSE r.thrown.originalError[1].name

\* One iteration of withRetry's loop: the provider is called and answers.
Attempt ==
  /\ pc \in RetryPcs /\ retry.result = "attempting"
  /\ \E o \in ProviderOutcomes(AgentAt(pc)) :
       LET a  == AgentAt(pc)
           op == Operation(a, tracker[a], o)
       IN  /\ calls' = [calls EXCEPT ![a] = @ + 1]
           /\ tracker' = [tracker EXCEPT ![a] = op.tracker]
           /\ limitHit' = [limitHit EXCEPT ![a] = @ \/ op.hit]
           /\ retry' = withRetryStep(retry, op.failed, op.value, op.error)
           /\ raisedKinds' = IF retry'.result = "thrown"
                             THEN raisedKinds \cup {ThrownKind(retry')}
                             ELSE raisedKinds
  /\ UNCHANGED <<json, merge, deck, driver, img, extract, logger, cfg, pc, idx, work, out>>

RetryDone == pc \in RetryPcs /\ retry.result \in {"success", "thrown"}

\* extractJSON on the response text: whether it returns.
Parses(body) == ~extractJSON(ResponseText(body)).threw

\* generateTableOfContents after withRetry, back in execute.
TocDone ==
  /\ pc = "tocRetry" /\ RetryDone
  /\ IF retry.result = "success" /\ Parses(retry.value)
     THEN /\ out' = [out EXCEPT !.files = @ \cup {"table-of-contents.json"}]
          /\ pc' = "docLoop" /\ idx' = 1
     ELSE /\ Fail /\ pc' = "exited"
          /\ UNCHANGED idx
  /\ retry' = IdleRetry
  /\ UNCHANGED <<json, merge, deck, driver, img, extract, logger, cfg, tracker, calls, limitHit, raisedKinds, work>>

\* The head of execute's per-document loop, up to classifySingleDocument's
\* withRetry.
NextDoc ==
  /\ pc = "docLoop" /\ idx <= Len(cfg.docs)
  /\ IF cfg.docs[idx] = "short"
     THEN /\ idx' = idx + 1
          /\ UNCHANGED <<pc, retry, work>>
     ELSE IF cfg.dryRun
     THEN /\ work' = [work EXCEPT
                       !.classified = @ + 1,
                       !.classifications =
                         Append(@, generateMockClassification(FileName(idx)))]
          /\ idx' = idx + 1
          /\ UNCHANGED <<pc, retry>>
     ELSE /\ retry' = StartRetry("classifier")
          /\ pc' = "docRetry"
          /\ UNCHANGED <<idx, work>>
  /\ UNCHANGED <<json, merge, deck, driver, img, extract, logger, cfg, tracker, calls, limitHit, raisedKinds, out>>

\* The document's classification returned, or the loop's catch logged it.
DocCaught(r) == ~(r.result = "success" /\ Parses(r.value))

DocDone ==
  /\ pc = "docRetry" /\ RetryDone
  /\ work' = IF DocCaught(retry)
             THEN [work EXCEPT !.failed = @ + 1]
             ELSE [work EXCEPT
                     !.classified = @ + 1,
                     !.classifications = Append(@, ParsedClassification(FileName(idx)))]
  /\ idx' = idx + 1
  /\ pc' = "docLoop"
  /\ retry' = IdleRetry
  /\ UNCHANGED <<json, merge, deck, driver, img, extract, logger, cfg, tracker, calls, limitHit, raisedKinds, out>>

\* The end of execute (merge, save) and of main (summary, exit 0).
ClassifyFinish ==
  /\ pc = "docLoop" /\ idx > Len(cfg.docs)
  /\ out' = [exitCode |-> 0, completed |-> TRUE,
             files |-> out.files \cup {"classified-context.json", "relevance-matrix.json"},
             result |-> mergeClassifications(work.classifications,
                                             tracker["classifier"].totalCost)]
  /\ pc' = "exited"
  /\ UNCHANGED <<json, merge, deck, driver, img, extract, logger, cfg, tracker, retry, idx, calls, limitHit, raisedKinds, work>>

\* 04-generate-final.js main, up to textGenerator.execute.
FinalMain ==
  /\ pc = "start" /\ cfg.phase = "final"
  /\ IF validateInputs(cfg)
     THEN /\ Fail /\ pc' = "exited"
          /\ UNCHANGED <<tracker, work>>
     ELSE /\ tracker' = Construct("generator")
          /\ work' = [work EXCEPT !.constructed = @ \cup {"generator"}]
          /\ pc' = "text"
          /\ UNCHANGED out
  /\ UNCHANGED <<json, merge, deck, driver, img, extract, logger, cfg, retry, idx, calls, limitHit, raisedKinds>>

\* Part 1 succeeded: deck-config.json and the image prompts are saved, and
\* main goes on to part 2 when there are n > 0 prompts and images are wanted.
TextSaved(n) ==
  /\ work' = [IF ~cfg.skipImages /\ n > 0 THEN InitClient("imageGenerator") ELSE work
                EXCEPT !.images = n, !.generated = <<>>,
                       !.constructed = IF ~cfg.skipImages /\ n > 0
                                       THEN @ \cup {"imageGenerator"} ELSE @]
  /\ IF ~cfg.skipImages /\ n > 0
     THEN /\ tracker' = Construct("imageGenerator")
          /\ out' = [out EXCEPT !.files = @ \cup {"deck-config.json", "image-prompts.json",
                                                  "intermediate/image-prompts.json"}]
          /\ pc' = "imageLoop" /\ idx' = 1
     ELSE /\ out' = [out EXCEPT !.files = @ \cup {"deck-config.json", "image-prompts.json"}]
          /\ pc' = "summary"
          /\ UNCHANGED <<tracker, idx>>

\* GeminiGenerator.execute up to callGemini's withRetry; in dry-run mode the
\* mock response stands in and execute runs to its end.
CallGemini ==
  /\ pc = "text"
  /\ IF cfg.dryRun
     THEN /\ TextSaved(MaxImages)
          /\ UNCHANGED retry
     ELSE /\ retry' = StartRetry("generator")
          /\ pc' = "textRetry"
          /\ work' = InitClient("generator")
          /\ UNCHANGED <<tracker, idx, out>>
  /\ UNCHANGED <<json, merge, deck, driver, img, extract, logger, cfg, calls, limitHit, raisedKinds>>

\* callGemini returned or threw: the rest of execute, back into main.
TextDone ==
  /\ pc = "textRetry" /\ RetryDone
  /\ IF retry.result = "success" /\ Parses(retry.value)
     THEN \E n \in 0..MaxImages : TextSaved(n)
     ELSE /\ Fail /\ pc' = "exited"
          /\ UNCHANGED <<tracker, idx, work>>
  /\ retry' = IdleRetry
  /\ UNCHANGED <<json, merge, deck, driver, img, extract, logger, cfg, calls, limitHit, raisedKinds>>

ImageFile(i) == <<"assets", i>>

\* The head of NanoBananaGenerator.execute's per-image loop, up to
\* callNanoBanana's withRetry; in dry-run mode generateImage returns the
\* mock path.
NextImage ==
  /\ pc = "imageLoop" /\ idx <= work.images
  /\ IF cfg.dryRun
     THEN /\ work' = [work EXCEPT !.generated = Append(@, <<ImageFile(idx)>>)]
          /\ idx' = idx + 1
          /\ UNCHANGED <<pc, retry>>
     ELSE /\ retry' = StartRetry("imageGenerator")
          /\ pc' = "imageRetry"
          /\ UNCHANGED <<idx, work>>
  /\ UNCHANGED <<json, merge, deck, driver, img, extract, logger, cfg, tracker, calls, limitHit, raisedKinds, out>>

\* generateImage saving whatever callNanoBanana returned, unvalidated.
ImageCaught_NoValidation(r) == r.result # "success"

\* Whether generateImage throws into the loop's catch.
ImageCaught(r) == ~(r.result = "success" /\ validateImageData(r.value))

\* callNanoBanana returned or threw: the rest of generateImage and of the
\* loop body.  An entry of generated is <<path>>, or <<>> for null.
ImageDone ==
  /\ pc = "imageRetry" /\ RetryDone
  /\ work' = IF ImageCaught(retry)
             THEN [work EXCEPT !.generated = Append(@, <<>>), !.failed = @ + 1]
             ELSE [work EXCEPT !.generated = Append(@, <<ImageFile(idx)>>),
                               !.written = @ \cup {ImageFile(idx)}]
  /\ idx' = idx + 1
  /\ pc' = "imageLoop"
  /\ retry' = IdleRetry
  /\ UNCHANGED <<json, merge, deck, driver, img, extract, logger, cfg, tracker, calls, limitHit, raisedKinds, out>>

\* The end of the image generator's execute (manifest) and main's update of
\* deck-config.json with the image paths.
ImagesFinish ==
  /\ pc = "imageLoop" /\ idx > work.images
  /\ out' = [out EXCEPT !.files = @ \cup {"generated-images.json"}]
  /\ pc' = "summary"
  /\ UNCHANGED <<json, merge, deck, driver, img, extract, logger, cfg, tracker, retry, idx, calls, limitHit, raisedKinds, work>>

\* main's summary: "Generation Complete", exit 0.
FinalFinish ==
  /\ pc = "summary"
  /\ out' = [out EXCEPT !.exitCode = 0, !.completed = TRUE]
  /\ pc' = "exited"
  /\ UNCHANGED <<json, merge, deck, driver, img, extract, logger, cfg, tracker, retry, idx, calls, limitHit, raisedKinds, work>>

Next ==
  \/ ClassifyMain \/ GenerateTOC \/ Attempt \/ TocDone \/ NextDoc \/ DocDone
  \/ ClassifyFinish
  \/ FinalMain \/ CallGemini \/ TextDone \/ NextImage \/ ImageDone \/ ImagesFinish
  \/ FinalFinish

Spec == Init /\ [][Next]_vars

\* No phase script runs.
NoRun ==
  /\ cfg = [phase |-> "classify", dryRun |-> TRUE, apiKey |-> FALSE,
            inputsPresent |-> TRUE, skipImages |-> FALSE, maxCost |-> 0,
            retryAttempts |-> 0, docs |-> <<"long">>]
  /\ IdleRun

----------------------------------------------------------------------------
(* The repair parser on its own: a response text is handed to extractJSON  *)
(* or to repairJSON.  The text is a valid JSON document, whole or cut      *)
(* short, bare or wrapped the way a model wraps its answer.                *)

\* Bound of the model: how deep the containers of a document nest.
MaxDepth == 2

\* 1, true, "a" and a string that holds a fenced block.
Scalars ==
  { <<"1">>, <<"t", "r", "u", "e">>, <<"\"", "a", "\"">>,
    <<"\"">> \o Fence \o <<"1">> \o Fence \o <<"\"">> }

KeyAt(n) == <<"\"", <<"a", "b">>[n], "\"">>

RECURSIVE ArrayBody(_, _)
ArrayBody(values, n) ==
  IF n > Len(values) THEN <<>>
  ELSE (IF n > 1 THEN <<",">> ELSE <<>>) \o values[n] \o ArrayBody(values, n + 1)

RECURSIVE ObjectBody(_, _)
ObjectBody(values, n) ==
  IF n > Len(values) THEN <<>>
  ELSE (IF n > 1 THEN <<",">> ELSE <<>>) \o KeyAt(n) \o <<":">> \o values[n]
         \o ObjectBody(values, n + 1)

\* The arrays and objects nesting at most d deep: empty, or one value, or
\* the number 1 and then a container.
RECURSIVE Containers(_)
Containers(d) ==
  IF d = 0 THEN {}
  ELSE LET inner == Containers(d - 1)
           lists == {<<>>} \cup {<<x>> : x \in Scalars \cup inner}
                      \cup {<<<<"1">>, y>> : y \in inner}
       IN  {<<"[">> \o ArrayBody(l, 1) \o <<"]">> : l \in lists}
             \cup {<<"{">> \o ObjectBody(l, 1) \o <<"}">> : l \in lists}

Documents == Scalars \cup Containers(MaxDepth)

MaxStringLen == 3

\* String contents the model left unescaped: at least one literal newline
\* among letters and digits.
NewlineStrings ==
  {c \in UNION {[1..n -> {"a", "1", "\n"}] : n \in 1..MaxStringLen} :
     \E k \in 1..Len(c) : c[k] = "\n"}

\* An object and an array whose one string value holds such a content.
NewlineDocuments ==
  {<<"{", "\"", "a", "\"", ":", "\"">> \o c \o <<"\"", "}">> : c \in NewlineStrings}
    \cup {<<"[", "\"">> \o c \o <<"\"", "]">> : c \in NewlineStrings}

\* Documents with one string value whose content holds separators and
\* brackets (a comma, a closing bracket) among letters.
SeparatorDocuments ==
  LET contents == {c \in UNION {[1..n -> {"a", ",", "]"}] : n \in 1..MaxStringLen} :
                     \E k \in 1..Len(c) : c[k] # "a"}
  IN  {<<"{", "\"", "a", "\"", ":", "\"">> \o c \o <<"\"", "}">> : c \in contents}
        \cup {<<"[", "\"">> \o c \o <<"\"", "]">> : c \in contents}

\* The concatenation of a sequence of texts.
RECURSIVE Concat(_)
Concat(texts) == IF texts = <<>> THEN <<>> ELSE Head(texts) \o Concat(Tail(texts))

\* Documents with one string value whose content is written with escapes:
\* the letter a, an escaped quote, an escaped backslash, an open bracket.
EscapeDocuments ==
  LET units    == {<<"a">>, <<"\\", "\"">>, <<"\\", "\\">>, <<"[">>}
      contents == {Concat(u) : u \in UNION {[1..n -> units] : n \in 1..MaxStringLen}}
  IN  {<<"{", "\"", "a", "\"", ":", "\"">> \o c \o <<"\"", "}">> : c \in contents}
        \cup {<<"[", "\"">> \o c \o <<"\"", "]">> : c \in contents}

Wraps == {"none", "fenced", "prose"}

Wrap(wrap, text) ==
  CASE wrap = "fenced" -> Fence \o <<"j", "s", "o", "n", "\n">> \o text \o <<"\n">> \o Fence
    [] wrap = "prose" -> <<"s", "e", "e", ":", " ">> \o text \o <<"\n">>
    [] OTHER -> text

\* Where a response may end: a bare document anywhere, a wrapped one whole
\* or one character short.
Cuts(doc, wrap) ==
  IF doc \in NewlineDocuments \cup SeparatorDocuments THEN {Len(doc)}
  ELSE IF wrap = "none" THEN 1..Len(doc) ELSE {Len(doc) - 1, Len(doc)} \ {0}

InitJSON ==
  /\ NoRun /\ merge = Idle /\ deck = Idle /\ driver = Idle /\ img = Idle /\ extract = Idle /\ logger = Idle
  /\ \E doc \in Documents \cup NewlineDocuments \cup SeparatorDocuments
                  \cup EscapeDocuments,
        wrap \in Wraps :
       \E cut \in Cuts(doc, wrap) :
         json = [IdleJSON EXCEPT !.doc = doc, !.cut = cut, !.wrap = wrap,
                                 !.text = Wrap(wrap, SubSeq(doc, 1, cut)),
                                 !.stage = "input"]

\* agent.extractJSON(text)
ExtractJSON ==
  /\ json.stage = "input"
  /\ json' = [json EXCEPT !.stage = "extracted",
                          !.out = extractJSON(json.text) @@ [text |-> <<>>]]
  /\ UNCHANGED <<runVars, merge, deck, driver, img, extract, logger>>

\* agent.repairJSON(text)
RepairJSON ==
  /\ json.stage = "input"
  /\ json' = [json EXCEPT !.stage = "repaired",
                          !.out = [IdleJSON.out EXCEPT !.repaired = TRUE,
                                                       !.text = repairJSON(json.text)]]
  /\ UNCHANGED <<runVars, merge, deck, driver, img, extract, logger>>

\* agent.closeOpenBrackets(text)
CloseOpenBrackets ==
  /\ json.stage = "input"
  /\ json' = [json EXCEPT !.stage = "closed",
                          !.out = [IdleJSON.out EXCEPT !.text = closeOpenBrackets(json.text)]]
  /\ UNCHANGED <<runVars, merge, deck, driver, img, extract, logger>>

NextJSON == ExtractJSON \/ RepairJSON \/ CloseOpenBrackets

SpecJSON == InitJSON /\ [][NextJSON]_vars

----------------------------------------------------------------------------
(* mergeClassifications on its own: the classifications of up to MaxDocs   *)
(* documents are merged.  A document has content for no slide type, for    *)
(* one, for all but one or for all of them.                                *)

Coverages ==
  {{}, SlideSet} \cup {{t} : t \in SlideSet} \cup {SlideSet \ {t} : t \in SlideSet}

\* What a document says of a slide type it covers: a fact at score 0.5, a
\* fact at score 0.2, or score 0.8 and no content.
Profiles ==
  [fact  |-> [score |-> 5,
              extractedContent |->
                <<[type |-> <<"f", "a", "c", "t">>, content |-> <<"t", "a", "m">>,
                   confidence |-> 9]>>],
   low   |-> [score |-> 2,
              extractedContent |->
                <<[type |-> <<"f", "a", "c", "t">>, content |-> <<"t", "a", "m">>,
                   confidence |-> 9]>>],
   bare  |-> [score |-> 8, extractedContent |-> <<>>]]

\* The classification of the n-th document, or its mock.
ClassificationOf(n, choice) ==
  IF choice = <<"mock">> THEN generateMockClassification(FileName(n))
  ELSE [ParsedClassification(FileName(n)) EXCEPT
          !.slideRelevance = [t \in choice[1] |-> Profiles[choice[2]]]]

InitMerge ==
  /\ NoRun /\ json = IdleJSON /\ deck = Idle /\ driver = Idle /\ img = Idle /\ extract = Idle /\ logger = Idle
  /\ \E n \in 0..MaxDocs :
       \E choices \in [1..n -> (Coverages \X DOMAIN Profiles) \cup {<<"mock">>}] :
         merge = [stage |-> "input", result |-> <<>>,
                  classifications |-> [k \in 1..n |-> ClassificationOf(k, choices[k])]]

\* classifier.mergeClassifications(classifications, story, styleGuide)
MergeClassifications ==
  /\ merge.stage = "input"
  /\ merge' = [merge EXCEPT !.stage = "merged",
                            !.result = mergeClassifications(merge.classifications, 0)]
  /\ UNCHANGED <<runVars, json, deck, driver, img, extract, logger>>

SpecMerge == InitMerge /\ [][MergeClassifications]_vars

----------------------------------------------------------------------------
(* The validators of the synthesizer and of the generator, and the part of *)
(* execute that follows extractJSON: validate, then save.  A parsed        *)
(* response is known by its company (absent, without name, named), its     *)
(* design (present or not) and its slides: absent, an object that is no    *)
(* array, or an array of slides.  A slide has a type (<<>> when it has     *)
(* none), a number of citations and a number of [TBD entries.  A message   *)
(* is its fixed text and the value put into it.                            *)

ValidatorPass == [threw |-> "", valid |-> TRUE, errors |-> <<>>, warnings |-> <<>>]

\* The warnings for the slide types no slide of the array has.
MissingSlideTypes(slides) ==
  LET missing == SelectSeq(SLIDE_TYPES,
                           LAMBDA type : \A n \in 1..Len(slides) : slides[n].type # type)
  IN  [n \in 1..Len(missing) |-> <<"Missing slide type: ", missing[n]>>]

\* OpenAISynthesizer.validateSynthesisOutput(output)
validateSynthesisOutput(output) ==
  LET named    == IF output.company = "named" THEN <<>>
                  ELSE <<<<"Missing company.name", <<>>>>>>
      uncited  == SelectSeq(output.slides.items, LAMBDA slide : slide.citations = 0)
  IN  IF output.slides.kind # "array"
      THEN [ValidatorPass EXCEPT
              !.valid = FALSE,
              !.errors = <<<<"Missing or invalid slides array", <<>>>>>>,
              !.warnings = named]
      ELSE [ValidatorPass EXCEPT
              !.warnings =
                named \o MissingSlideTypes(output.slides.items)
                  \o [n \in 1..Len(uncited) |-> <<"Slide has no citations", uncited[n].type>>]]

\* A validator that reports no missing slide type.
validateDeckConfig_NoTypeCheck(config) ==
  IF config.company = "named" /\ config.slides.kind = "array"
  THEN ValidatorPass
  ELSE [ValidatorPass EXCEPT !.threw = "AgentError", !.valid = FALSE]

\* GeminiGenerator.validateDeckConfig(config)
validateDeckConfig(config) ==
  LET RECURSIVE Tbd(_)
      Tbd(n) == IF n > Len(config.slides.items) THEN 0
                ELSE config.slides.items[n].tbd + Tbd(n + 1)
      errors   == (IF config.company = "named" THEN <<>>
                   ELSE <<<<"Missing company.name", <<>>>>>>)
                    \o (IF config.slides.kind = "array" THEN <<>>
                        ELSE <<<<"Missing or invalid slides array", <<>>>>>>)
      warnings == (IF config.design THEN <<>> ELSE <<<<"Missing design object", <<>>>>>>)
                    \o (IF config.slides.kind = "array"
                        THEN MissingSlideTypes(config.slides.items)
                               \o (IF Tbd(1) > 0
                                   THEN <<<<"Found [TBD] entries in slides", Tbd(1)>>>>
                                   ELSE <<>>)
                        ELSE <<>>)
  IN  IF config.slides.kind = "object"
      THEN [threw |-> "TypeError", valid |-> FALSE, errors |-> errors,
            warnings |-> warnings]
      ELSE IF errors # <<>>
      THEN [threw |-> "AgentError", valid |-> FALSE, errors |-> errors,
            warnings |-> warnings]
      ELSE [ValidatorPass EXCEPT !.warnings = warnings]

\* The slides of a response: the slide types of a coverage in their order,
\* all with citations or all without, the first with tbd [TBD entries.
SlidesOf(coverage, citations, tbd) ==
  LET types == SelectSeq(SLIDE_TYPES, LAMBDA type : type \in coverage)
  IN  [n \in 1..Len(types) |->
         [type |-> types[n], citations |-> citations,
          tbd |-> IF n = 1 THEN tbd ELSE 0]]

ParsedResponses ==
  {[company |-> company, design |-> design, slides |-> slides] :
     company \in {"absent", "unnamed", "named"}, design \in BOOLEAN,
     slides \in {[kind |-> "absent", items |-> <<>>], [kind |-> "object", items |-> <<>>]}
                  \cup {[kind |-> "array", items |-> SlidesOf(coverage, citations, tbd)] :
                          coverage \in Coverages, citations \in {0, 1}, tbd \in {0, 1}}
                  \cup {[kind |-> "array",
                         items |-> <<[type |-> <<>>, citations |-> 1, tbd |-> 0]>>]}}

InitValidate ==
  /\ NoRun /\ json = IdleJSON /\ merge = Idle /\ driver = Idle /\ img = Idle /\ extract = Idle /\ logger = Idle
  /\ \E parsed \in ParsedResponses :
       deck = [stage |-> "parsed", parsed |-> parsed, agent |-> "",
               validation |-> ValidatorPass, threw |-> "", files |-> {}]

\* OpenAISynthesizer.execute after extractJSON: validate, add the metadata,
\* save synthesis-output.json, extract the citations and save them.
SynthesizerValidates ==
  /\ deck.stage = "parsed"
  /\ LET validation == validateSynthesisOutput(deck.parsed)
     IN  deck' = [deck EXCEPT
                    !.stage = "done", !.agent = "synthesizer",
                    !.validation = validation,
                    !.threw = IF validation.threw # "" THEN validation.threw
                              ELSE IF deck.parsed.slides.kind = "object" THEN "TypeError"
                              ELSE "",
                    !.files = IF validation.threw # "" THEN {}
                              ELSE IF deck.parsed.slides.kind = "object"
                              THEN {"synthesis-output.json"}
                              ELSE {"synthesis-output.json", "citations.json"}]
  /\ UNCHANGED <<runVars, json, merge, driver, img, extract, logger>>

\* GeminiGenerator.execute after extractJSON: validate, save
\* deck-config.json, derive the image prompts and save them.
GeneratorValidates ==
  /\ deck.stage = "parsed"
  /\ LET validation == validateDeckConfig(deck.parsed)
     IN  deck' = [deck EXCEPT
                    !.stage = "done", !.agent = "generator",
                    !.validation = validation,
                    !.threw = validation.threw,
                    !.files = IF validation.threw # "" THEN {}
                              ELSE {"deck-config.json", "image-prompts.json"}]
  /\ UNCHANGED <<runVars, json, merge, driver, img, extract, logger>>

NextValidate == SynthesizerValidates \/ GeneratorValidates

SpecValidate == InitValidate /\ [][NextValidate]_vars

----------------------------------------------------------------------------
(* The pipeline driver (run-pipeline.sh): option defaults and flags, the   *)
(* pre-flight checks, the five phase blocks under set -e, the summary.  A  *)
(* phase script is known by its exit status.  The operator's answer to the *)
(* prompt is fixed with the run's environment; block is the phase block    *)
(* the script has come to.                                                 *)

\* The environment variable that check_api_keys tests for a phase.
ApiKeyOf == [p \in {2, 3, 4} |->
               <<"ANTHROPIC_API_KEY", "OPENAI_API_KEY", "GOOGLE_AI_API_KEY">>[p - 1]]

\* Whether the phase's skip flag is set; phases 4 and 5 have none.
Skipped(d, phase) ==
  CASE phase = 1 -> d.SKIP_EXTRACT
    [] phase = 2 -> d.SKIP_CLASSIFY
    [] phase = 3 -> d.SKIP_SYNTHESIZE
    [] OTHER -> FALSE

\* Key checks that pay no regard to the skip flags.
KeysChecked_IgnoreSkip(d) == {ApiKeyOf[p] : p \in {q \in {2, 3, 4} : d.FROM_PHASE <= q}}

\* The keys check_api_keys tests.
KeysChecked(d) ==
  {ApiKeyOf[p] : p \in {q \in {2, 3} : d.FROM_PHASE <= q /\ ~Skipped(d, q)}}
    \cup (IF d.FROM_PHASE <= 4 THEN {ApiKeyOf[4]} ELSE {})

\* check_api_keys: the keys tested, whether the operator was prompted and
\* whether the script exits 1.
check_api_keys(d) ==
  LET errors == Cardinality(KeysChecked(d) \ d.env)
      prompt == errors > 0 /\ ~d.AUTO_YES /\ ~d.NON_INTERACTIVE /\ d.tty
  IN  [checked |-> KeysChecked(d),
       prompted |-> prompt,
       exit |-> /\ errors > 0 /\ ~d.AUTO_YES
                /\ (d.NON_INTERACTIVE \/ ~d.tty \/ d.REPLY \notin {"y", "Y"})]

\* A script that goes on after a failed command.
ExitsOnFailure_Never(status) == FALSE

\* set -e: a command that exits non-zero ends the script with its status.
ExitsOnFailure(status) == status # 0

Drivers ==
  [FROM_PHASE : 1..5, SKIP_EXTRACT : BOOLEAN, SKIP_CLASSIFY : BOOLEAN,
   SKIP_SYNTHESIZE : BOOLEAN, AUTO_YES : BOOLEAN, NON_INTERACTIVE : BOOLEAN,
   tty : BOOLEAN, REPLY : {"y", "n"}, userInputs : BOOLEAN,
   env : SUBSET {ApiKeyOf[p] : p \in {2, 3, 4}},
   stage : {"preflight"}, block : {1}, checked : {{}}, prompted : {FALSE}, ran : {<<>>},
   summary : {FALSE}, exitCode : {-1}]

InitDriver ==
  /\ NoRun /\ json = IdleJSON /\ merge = Idle /\ deck = Idle /\ img = Idle /\ extract = Idle /\ logger = Idle
  /\ driver \in Drivers

\* check_user_inputs, check_api_keys.
PreFlight ==
  /\ driver.stage = "preflight"
  /\ LET keys == check_api_keys(driver)
     IN  driver' =
           IF ~driver.userInputs
           THEN [driver EXCEPT !.stage = "exited", !.exitCode = 1]
           ELSE IF keys.exit
           THEN [driver EXCEPT !.stage = "exited", !.exitCode = 1,
                               !.checked = keys.checked, !.prompted = keys.prompted]
           ELSE [driver EXCEPT !.stage = "blocks",
                               !.checked = keys.checked, !.prompted = keys.prompted]
  /\ UNCHANGED <<runVars, json, merge, deck, img, extract, logger>>

\* One phase block: the phase script runs unless the run starts after it or
\* its skip flag is set.
PhaseBlock ==
  /\ driver.stage = "blocks" /\ driver.block \in 1..5
  /\ LET phase == driver.block
     IN  IF driver.FROM_PHASE <= phase /\ ~Skipped(driver, phase)
         THEN \E status \in {0, 1} :
                driver' =
                  IF ExitsOnFailure(status)
                  THEN [driver EXCEPT
                          !.ran = Append(@, [phase |-> phase, status |-> status]),
                          !.stage = "exited", !.exitCode = status]
                  ELSE [driver EXCEPT
                          !.ran = Append(@, [phase |-> phase, status |-> status]),
                          !.block = phase + 1]
         ELSE driver' = [driver EXCEPT !.block = phase + 1]
  /\ UNCHANGED <<runVars, json, merge, deck, img, extract, logger>>

\* "Pipeline Complete!" and the end of the script.
Summary ==
  /\ driver.stage = "blocks" /\ driver.block = 6
  /\ driver' = [driver EXCEPT !.summary = TRUE, !.stage = "exited", !.exitCode = 0]
  /\ UNCHANGED <<runVars, json, merge, deck, img, extract, logger>>

NextDriver == PreFlight \/ PhaseBlock \/ Summary

SpecDriver == InitDriver /\ [][NextDriver]_vars

----------------------------------------------------------------------------
(* The image generator against the clock: NanoBananaGenerator.execute's    *)
(* loop over the images with enforceRateLimit, and callNanoBanana's        *)
(* withRetry.  Time passes while the provider answers and while the agent  *)
(* sleeps; prevStart and lastStart are the times at which the last two     *)
(* provider calls started.                                                 *)

MinDelayBetweenCalls == 3000

\* Date.now() when execute starts, the constructor having set lastCallTime
\* to 0.
StartTime == 10000

\* How long the provider takes to answer the calls for one image, in ms.
CallDurations == {100, 4000}

\* imageConfig.maxRetries as configured; 0 stands for "not set".
MaxRetriesChoices == {0, 2, 7}

\* enforceRateLimit(): the clock and lastCallTime when it returns.
enforceRateLimit(now, lastCallTime) ==
  LET timeSinceLastCall == now - lastCallTime
      waitTime == IF timeSinceLastCall < MinDelayBetweenCalls
                  THEN MinDelayBetweenCalls - timeSinceLastCall
                  ELSE 0
  IN  [now |-> now + waitTime, lastCallTime |-> now + waitTime]

InitImage ==
  /\ NoRun /\ json = IdleJSON /\ merge = Idle /\ deck = Idle /\ driver = Idle
  /\ extract = Idle /\ logger = Idle
  /\ \E images \in 1..MaxImages, maxRetries \in MaxRetriesChoices :
       img = [stage |-> "loop", images |-> images, maxRetries |-> maxRetries,
              idx |-> 1, now |-> StartTime, lastCallTime |-> 0,
              retry |-> IdleRetry, duration |-> 0, calls |-> 0,
              prevStart |-> 0, lastStart |-> 0, failed |-> 0]

\* The head of the loop body: enforceRateLimit, then generateImage up to
\* callNanoBanana's withRetry.
RateLimitedImage ==
  /\ img.stage = "loop" /\ img.idx <= img.images
  /\ \E duration \in CallDurations :
       LET limited == enforceRateLimit(img.now, img.lastCallTime)
       IN  img' = [img EXCEPT
                   !.now = limited.now, !.lastCallTime = limited.lastCallTime,
                   !.duration = duration,
                   !.retry = withRetryStart(
                               EffectiveRetryAttempts("imageGenerator", img.maxRetries),
                               EffectiveRetryDelay("imageGenerator")),
                   !.stage = "retry"]
  /\ UNCHANGED <<runVars, json, merge, deck, driver, extract, logger>>

\* One iteration of withRetry's loop: the provider is called, answers after
\* a while, and withRetry sleeps when it goes round again.  What the calls
\* cost is followed in the run above; here the tracker is far from its limit
\* and calls counts up to the second call only.
ImageCall ==
  /\ img.stage = "retry" /\ img.retry.result = "attempting"
  /\ \E o \in ProviderOutcomes("imageGenerator") :
       LET op    == Operation("imageGenerator", NewCostTracker(DefaultMaxCost), o)
           r     == withRetryStep(img.retry, op.failed, op.value, op.error)
           slept == IF Len(r.delays) > Len(img.retry.delays)
                    THEN r.delays[Len(r.delays)] ELSE 0
       IN  img' = [img EXCEPT
                     !.calls = IF @ < 2 THEN @ + 1 ELSE @,
                     !.prevStart = img.lastStart, !.lastStart = img.now,
                     !.now = @ + img.duration + slept,
                     !.retry = r]
  /\ UNCHANGED <<runVars, json, merge, deck, driver, extract, logger>>

\* callNanoBanana returned or threw: the rest of generateImage, and the
\* loop's catch.
ImageSettled ==
  /\ img.stage = "retry" /\ img.retry.result \in {"success", "thrown"}
  /\ img' = [img EXCEPT
               !.failed = IF ImageCaught(img.retry) THEN @ + 1 ELSE @,
               !.idx = @ + 1, !.retry = IdleRetry, !.stage = "loop"]
  /\ UNCHANGED <<runVars, json, merge, deck, driver, extract, logger>>

\* The loop is over: the manifest is written and execute returns.
ImagesGenerated ==
  /\ img.stage = "loop" /\ img.idx > img.images
  /\ img' = [img EXCEPT !.stage = "done"]
  /\ UNCHANGED <<runVars, json, merge, deck, driver, extract, logger>>

NextImageRun == RateLimitedImage \/ ImageCall \/ ImageSettled \/ ImagesGenerated

SpecImage == InitImage /\ [][NextImageRun]_vars

----------------------------------------------------------------------------
(* The extraction script (01-extract-pdfs.sh).  A source file of           *)
(* context-refs is <<n, ext>>, standing for doc<n>.<ext>.  A file of       *)
(* extracted-text is <<n, ext>> too: doc<n>.txt as it was last written,    *)
(* from doc<n>.<ext>.  A glob lists the files in the order of their names; *)
(* extracted-text is empty when the script starts.                         *)

Extensions == {"pdf", "md", "txt"}

SourceSets == (SUBSET ((1..MaxDocs) \X Extensions)) \ {{}}

\* What markitdown, and then the OCR fallback, make of one PDF: at least
\* MIN_CHARS of text, less than that, or a failure.
PdfOutcomes == {"ok", "short", "failed"}

\* "$SOURCE_DIR"/*.<ext>: the numbers of the files matched, in order.
RECURSIVE Glob(_, _, _)
Glob(sources, ext, n) ==
  IF n > MaxDocs THEN <<>>
  ELSE (IF <<n, ext>> \in sources THEN <<n>> ELSE <<>>) \o Glob(sources, ext, n + 1)

\* doc<n>.txt written in extracted-text, over any file of that name.
WriteText(output, n, ext) == {f \in output : f[1] # n} \cup {<<n, ext>>}

RECURSIVE CopyFiles(_, _, _)
CopyFiles(names, ext, output) ==
  IF names = <<>> THEN output
  ELSE CopyFiles(Tail(names), ext, WriteText(output, Head(names), ext))

\* The PDF loop's first iteration when the glob matched nothing: the
\* pattern itself is no file and the script exits 1.
NoPdfExits(pdfs) == pdfs = <<>>

InitExtract ==
  /\ NoRun /\ json = IdleJSON /\ merge = Idle /\ deck = Idle /\ driver = Idle
  /\ img = Idle /\ logger = Idle
  /\ \E sources \in SourceSets, markitdown \in BOOLEAN, ocr \in BOOLEAN :
       extract = [stage |-> "copy", sources |-> sources, markitdown |-> markitdown,
                  ocr |-> ocr, output |-> {}, MD_COUNT |-> 0, CURRENT |-> 0,
                  MARKITDOWN_SUCCESS |-> 0, OCR_SUCCESS |-> 0, FAILED |-> 0,
                  exitCode |-> -1]

\* Phase 0: the loop copying the .md and the .txt files.
CopyTextFiles ==
  /\ extract.stage = "copy"
  /\ LET md  == Glob(extract.sources, "md", 1)
         txt == Glob(extract.sources, "txt", 1)
     IN  extract' = [extract EXCEPT
                       !.output = CopyFiles(txt, "txt", CopyFiles(md, "md", @)),
                       !.MD_COUNT = Len(md) + Len(txt),
                       !.stage = "tools"]
  /\ UNCHANGED <<runVars, json, merge, deck, driver, img, logger>>

\* The check that markitdown is installed, and the probe for OCR.
CheckTools ==
  /\ extract.stage = "tools"
  /\ extract' = IF ~extract.markitdown
                THEN [extract EXCEPT !.exitCode = 1, !.stage = "exited"]
                ELSE [extract EXCEPT !.stage = "pdfs"]
  /\ UNCHANGED <<runVars, json, merge, deck, driver, img, logger>>

\* One iteration of the PDF loop.
ExtractPdf ==
  /\ extract.stage = "pdfs"
  /\ LET pdfs == Glob(extract.sources, "pdf", 1)
     IN  /\ NoPdfExits(pdfs) \/ extract.CURRENT < Len(pdfs)
         /\ IF NoPdfExits(pdfs)
            THEN extract' = [extract EXCEPT !.exitCode = 1, !.stage = "exited"]
            ELSE \E m \in PdfOutcomes,
                    o \in IF extract.ocr THEN PdfOutcomes ELSE {"failed"} :
                   extract' = [extract EXCEPT
                     !.CURRENT = @ + 1,
                     !.output = WriteText(@, pdfs[extract.CURRENT + 1], "pdf"),
                     !.MARKITDOWN_SUCCESS = IF m = "ok" THEN @ + 1 ELSE @,
                     !.OCR_SUCCESS = IF m # "ok" /\ o = "ok" THEN @ + 1 ELSE @,
                     !.FAILED = IF m # "ok" /\ o # "ok" THEN @ + 1 ELSE @]
  /\ UNCHANGED <<runVars, json, merge, deck, driver, img, logger>>

\* After the loop: the results and the summary; the script ends with 0.
ExtractionComplete ==
  /\ extract.stage = "pdfs"
  /\ ~NoPdfExits(Glob(extract.sources, "pdf", 1))
  /\ extract.CURRENT = Len(Glob(extract.sources, "pdf", 1))
  /\ extract' = [extract EXCEPT !.exitCode = 0, !.stage = "exited"]
  /\ UNCHANGED <<runVars, json, merge, deck, driver, img, logger>>

NextExtract == CopyTextFiles \/ CheckTools \/ ExtractPdf \/ ExtractionComplete

SpecExtract == InitExtract /\ [][NextExtract]_vars

----------------------------------------------------------------------------
(* PromptLogger.  The clock counts milliseconds, the resolution of the     *)
(* timestamp in a prompt file's name; a file name is <<timestamp,          *)
(* agentName, promptType>>.  A prompt is known by the length of its        *)
(* content.  manifest is prompt-manifest.json: no element while the file   *)
(* does not exist, else the manifest last written.                         *)

\* Bound of the model: how many prompts are logged.
MaxPrompts == 3

PromptAgents == {"classifier", "generator"}

PromptTypes == {"system", "user"}

ContentLengths == {3, 8}

\* Math.ceil(content.length / 4)
TokenEstimate(contentLength) == (contentLength + 3) \div 4

\* logPrompt at time now, its record pushed at time pushedAt.
logPrompt(lg, agentName, promptType, contentLength, now, pushedAt) ==
  LET filename == <<now, agentName, promptType>>
  IN  [lg EXCEPT
         !.files = @ \cup {filename},
         !.prompts = Append(@, [timestamp |-> pushedAt, agentName |-> agentName,
                                promptType |-> promptType, filename |-> filename,
                                tokenEstimate |-> TokenEstimate(contentLength),
                                contentLength |-> contentLength]),
         !.now = pushedAt]

\* mergedByFilename.set(prompt.filename, prompt): a Map keeps a key at the
\* place of its first insertion and the value of its last.
MapSet(entries, prompt) ==
  IF \E i \in 1..Len(entries) : entries[i].filename = prompt.filename
  THEN [i \in 1..Len(entries) |->
          IF entries[i].filename = prompt.filename THEN prompt ELSE entries[i]]
  ELSE Append(entries, prompt)

RECURSIVE MergeByFilename(_, _)
MergeByFilename(prompts, entries) ==
  IF prompts = <<>> THEN entries
  ELSE MergeByFilename(Tail(prompts), MapSet(entries, Head(prompts)))

\* Array.prototype.sort by timestamp: stable, ascending.
RECURSIVE SortByTimestamp(_)
SortByTimestamp(prompts) ==
  IF prompts = <<>> THEN <<>>
  ELSE LET sorted == SortByTimestamp(SubSeq(prompts, 1, Len(prompts) - 1))
           last   == prompts[Len(prompts)]
           keep   == Cardinality({i \in 1..Len(sorted) :
                                    sorted[i].timestamp <= last.timestamp})
       IN  SubSeq(sorted, 1, keep) \o <<last>> \o SubSeq(sorted, keep + 1, Len(sorted))

RECURSIVE SumOf(_, _)
SumOf(prompts, field) ==
  IF prompts = <<>> THEN 0 ELSE Head(prompts)[field] + SumOf(Tail(prompts), field)

getPromptsByAgent(prompts) ==
  [a \in {prompts[i].agentName : i \in 1..Len(prompts)} |->
     LET own == SelectSeq(prompts, LAMBDA p : p.agentName = a)
     IN  [count |-> Len(own), totalTokens |-> SumOf(own, "tokenEstimate"),
          prompts |-> [i \in 1..Len(own) |-> own[i].filename]]]

\* saveManifest: the manifest it writes.
saveManifest(lg) ==
  LET existingPrompts == IF lg.manifest = <<>> THEN <<>> ELSE lg.manifest[1].prompts
      mergedPrompts   == SortByTimestamp(
                           MergeByFilename(existingPrompts \o lg.prompts, <<>>))
  IN  [totalPrompts |-> Len(mergedPrompts),
       totalTokensEstimate |-> SumOf(mergedPrompts, "tokenEstimate"),
       totalCharacters |-> SumOf(mergedPrompts, "contentLength"),
       promptsByAgent |-> getPromptsByAgent(mergedPrompts),
       prompts |-> mergedPrompts]

InitLogger ==
  /\ NoRun /\ json = IdleJSON /\ merge = Idle /\ deck = Idle /\ driver = Idle
  /\ img = Idle /\ extract = Idle
  /\ logger = [stage |-> "open", now |-> 0, prompts |-> <<>>, files |-> {},
               manifest |-> <<>>, saved |-> 0]

\* An agent logs a prompt, some time after the last one; writing the prompt
\* file may take the clock to the next millisecond.
LogPrompt ==
  /\ logger.stage = "open" /\ Len(logger.prompts) < MaxPrompts
  /\ \E agentName \in PromptAgents, promptType \in PromptTypes,
        contentLength \in ContentLengths, waited \in {0, 1}, took \in {0, 1} :
       logger' = logPrompt(logger, agentName, promptType, contentLength,
                           logger.now + waited, logger.now + waited + took)
  /\ UNCHANGED <<runVars, json, merge, deck, driver, img, extract>>

\* The phase script saves the manifest.
SaveManifest ==
  /\ logger.stage = "open" /\ logger.saved < Len(logger.prompts)
  /\ logger' = [logger EXCEPT !.manifest = <<saveManifest(logger)>>,
                              !.saved = Len(logger.prompts)]
  /\ UNCHANGED <<runVars, json, merge, deck, driver, img, extract>>

NextLogger == LogPrompt \/ SaveManifest

SpecLogger == InitLogger /\ [][NextLogger]_vars

----------------------------------------------------------------------------
(* Claims about the cost tracker, the retry executor and the phases.       *)

\* C1: once addUsage has raised the cost-limit error in an agent, that agent
\* issues no further provider call (per-document and per-image loops included).
C1_NoCallAfterCostLimit ==
  [][\A a \in Agents : limitHit[a] => calls'[a] = calls[a]]_vars

\* C2: a cost-limit error thrown by the operation inside withRetry is never
\* retried: it is the operation's last invocation and withRetry throws at once.
C2_CostLimitNeverRetried ==
  \A k \in 1..Len(retry.errors) :
    retry.errors[k].name = "CostLimitError"
      => retry.invocations = k /\ retry.result = "thrown"

RECURSIVE PrefixCost(_, _)
PrefixCost(t, k) == IF k = 0 THEN 0 ELSE PrefixCost(t, k - 1) + t.calls[k].cost

\* The call on which the cumulative cost first exceeds the ceiling.
FirstCrossing(t, n) ==
  /\ n \in 1..Len(t.raised)
  /\ PrefixCost(t, n) > t.maxCost
  /\ \A k \in 1..(n - 1) : PrefixCost(t, k) <= t.maxCost

\* C3: when the cumulative cost first exceeds the ceiling on the Nth addUsage
\* call, calls 1..N-1 returned normally and the Nth raised the cost-limit
\* error; totalCost and the call records include every call made, the raising
\* one too.
C3_RaisesOnExactlyNthCall ==
  \A a \in Agents :
    LET t == tracker[a]
    IN  /\ Len(t.calls) = Len(t.raised)
        /\ t.totalCost = PrefixCost(t, Len(t.calls))
        /\ \A n \in 1..Len(t.raised) :
             FirstCrossing(t, n)
               => t.raised[n] /\ \A k \in 1..(n - 1) : ~t.raised[k]
        /\ \A n \in 1..Len(t.raised) :
             t.raised[n] => \E m \in 1..n : FirstCrossing(t, m)

C3_Witness ==
  \E a \in Agents :
    /\ Len(tracker[a].raised) >= 2
    /\ FirstCrossing(tracker[a], Len(tracker[a].raised))
    /\ limitHit[a]

\* The cost recorded by all agents of the run.
RunCost ==
  tracker["classifier"].totalCost + tracker["generator"].totalCost
    + tracker["imageGenerator"].totalCost

\* C4: the agents of a run share one tracker, so whenever the cost recorded by
\* all agents exceeds the configured ceiling the cost-limit error was raised.
C4_CeilingBoundsRun ==
  RunCost > EffectiveMaxCost(cfg.maxCost) => \E a \in Agents : limitHit[a]

AllRetryable(errors) == \A k \in 1..Len(errors) : isRetryable(errors[k])

\* C5: with retryAttempts = 3, after two failures with retryable errors
\* withRetry has slept exactly twice and is making its third attempt; when
\* that attempt succeeds withRetry returns its result after exactly 3
\* invocations and 2 sleeps.
C5_ThirdAttemptSucceeds ==
  (retry.retryAttempts = 3 /\ Len(retry.errors) = 2 /\ AllRetryable(retry.errors))
    => /\ Len(retry.delays) = 2
       /\ retry.result \in {"attempting", "success"}
       /\ retry.result = "attempting" => retry.invocations = 2 /\ retry.attempt = 3
       /\ retry.result = "success" => retry.invocations = 3 /\ retry.value # ""

C5_Witness ==
  /\ retry.retryAttempts = 3 /\ Len(retry.errors) = 2 /\ AllRetryable(retry.errors)
  /\ retry.result = "success" /\ retry.invocations = 3 /\ Len(retry.delays) = 2

\* C6: a failure that isRetryable classifies non-retryable is the operation's
\* last invocation: withRetry throws at once an AgentError wrapping it, with
\* no sleep after it; when it is the first failure, after one invocation and
\* no sleep at all.
C6_NonRetryableRaisesAtOnce ==
  \A k \in 1..Len(retry.errors) :
    ~isRetryable(retry.errors[k])
      => /\ k = Len(retry.errors) /\ retry.invocations = k
         /\ Len(retry.delays) = k - 1
         /\ retry.result = "thrown"
         /\ retry.thrown.name = "AgentError"
         /\ retry.thrown.originalError = <<retry.errors[k]>>

C6_Witness ==
  /\ Len(retry.errors) = 1 /\ ~isRetryable(retry.errors[1])
  /\ retry.invocations = 1 /\ retry.delays = <<>> /\ retry.result = "thrown"

\* C7: withRetry never invokes the operation more than retryAttempts times,
\* every step of it is one more invocation, and when every one of the
\* retryAttempts attempts failed with a retryable error it has thrown a
\* RetryExhaustedError carrying the attempt count and the last error; it ends
\* in success, exhausted or the wrapped non-retryable error.
C7_Inv ==
  /\ retry.result \in {"idle", "attempting", "success", "thrown"}
  /\ retry.invocations <= retry.retryAttempts
  /\ retry.result = "attempting" => retry.invocations = retry.attempt - 1
  /\ retry.result = "thrown" => retry.thrown.name \in {"RetryExhaustedError", "AgentError"}
  /\ (retry.invocations = retry.retryAttempts /\ retry.result # "idle"
        /\ Len(retry.errors) = retry.invocations /\ AllRetryable(retry.errors))
       => /\ retry.result = "thrown"
          /\ retry.thrown.name = "RetryExhaustedError"
          /\ retry.thrown.attempts = retry.retryAttempts
          /\ retry.thrown.originalError = <<retry.errors[Len(retry.errors)]>>

C7_ExhaustedAfterRetryAttempts ==
  /\ []C7_Inv
  /\ [][retry.result = "attempting" /\ retry' # retry
          => retry'.invocations = retry.invocations + 1]_vars

C7_Witness ==
  /\ retry.retryAttempts = 3 /\ retry.invocations = 3 /\ Len(retry.errors) = 3
  /\ AllRetryable(retry.errors) /\ retry.thrown.name = "RetryExhaustedError"

\* C8: when an external call of a phase ended in a retry-exhausted error or a
\* non-retryable provider error, the phase script exits non-zero and does not
\* report completion.
C8_FailedCallFailsPhase ==
  (pc = "exited" /\ raisedKinds \cap {"RetryExhaustedError", "ProviderError"} # {})
    => out.exitCode # 0 /\ ~out.completed

\* The content items of a merged classification: those of every slide and
\* of every slide's sources.
ContentItems(result) ==
  UNION {{result.slides[t].allContent[n] : n \in 1..Len(result.slides[t].allContent)}
           \cup UNION {{result.slides[t].relevantSources[k].allContent[n] :
                          n \in 1..Len(result.slides[t].relevantSources[k].allContent)} :
                         k \in 1..Len(result.slides[t].relevantSources)} :
         t \in SlideSet}

\* C12: the classify phase in dry-run mode with no credential configured and
\* its inputs present never initialises a provider client and never calls a
\* provider, for the table of contents or for a document; when it has
\* exited, it exited 0 with the classification written, every content item
\* of which starts with the tag [DRY-RUN].
C12_DryRunMakesNoCall ==
  (cfg.phase = "classify" /\ cfg.dryRun /\ ~cfg.apiKey /\ cfg.inputsPresent)
    => /\ \A a \in Agents : calls[a] = 0
       /\ work.clients = {}
       /\ pc \notin RetryPcs /\ retry = IdleRetry
       /\ pc = "exited"
            => /\ out.exitCode = 0 /\ out.completed
               /\ {"table-of-contents.json", "classified-context.json"} \subseteq out.files
               /\ out.result.metadata.totalDocuments = work.classified
               /\ \A item \in ContentItems(out.result) :
                    HasAt(item.content, 1,
                          <<"[", "D", "R", "Y", "-", "R", "U", "N", "]">>)

C12_Witness ==
  /\ cfg.phase = "classify" /\ cfg.dryRun /\ ~cfg.apiKey /\ cfg.inputsPresent
  /\ pc = "exited" /\ out.exitCode = 0 /\ work.classified = Len(cfg.docs)
  /\ Len(cfg.docs) >= 2 /\ Cardinality(ContentItems(out.result)) >= 2

\* C18: when a required input file is missing, or in non-dry mode the
\* phase's credential is missing, the classify and the final phase script
\* construct no agent, initialise no client, issue no provider call and write
\* no artifact, and they exit non-zero.
C18_ValidationFailsBeforeSpend ==
  (~cfg.inputsPresent \/ (~cfg.dryRun /\ ~cfg.apiKey))
    => /\ pc \in {"start", "exited"}
       /\ work.constructed = {} /\ work.clients = {}
       /\ \A a \in Agents : calls[a] = 0 /\ tracker[a].calls = <<>>
       /\ out.files = {} /\ work.written = {}
       /\ pc = "exited" => out.exitCode # 0 /\ ~out.completed

C18_Witness ==
  /\ cfg.phase = "final" /\ cfg.inputsPresent /\ ~cfg.dryRun /\ ~cfg.apiKey
  /\ pc = "exited" /\ out.exitCode = 1 /\ out.files = {}

----------------------------------------------------------------------------
(* Claims about the repair parser.                                         *)

\* C9: for every valid JSON string given as the raw response text,
\* extractJSON returns, without repair, a value equal to JSON.parse of it.
C9_ValidInputParsedAsIs ==
  (json.stage = "extracted" /\ JSONParse(json.text).ok)
    => /\ ~json.out.threw
       /\ ~json.out.repaired
       /\ json.out.value = JSONParse(json.text).val

\* The text ends strictly inside an object or array and outside any string.
CutInsideContainer(text) ==
  LET scan == BracketScan(text)
  IN  Len(scan.stack) > 0 /\ ~scan.inString

\* The keys of the document whose closing quote lies before the cut.
KeysBefore(doc, cut) == {k.name : k \in {q \in JSONParse(doc).keys : q.end <= cut}}

\* C10: for a valid JSON document cut strictly inside an object or array and
\* outside any string, repairJSON returns a text that JSON.parse accepts and
\* whose keys are all keys present before the cut.
C10_TruncatedInputRepaired ==
  (json.stage = "repaired" /\ json.wrap = "none" /\ json.cut < Len(json.doc)
     /\ CutInsideContainer(json.text))
    => /\ JSONParse(json.out.text).ok
       /\ {k.name : k \in JSONParse(json.out.text).keys} \subseteq KeysBefore(json.doc, json.cut)

\* The text with every literal newline written as the escape \\n.
RECURSIVE EscapeNewlines(_)
EscapeNewlines(text) ==
  IF text = <<>> THEN <<>>
  ELSE (IF Head(text) = "\n" THEN <<"\\", "n">> ELSE <<Head(text)>>)
         \o EscapeNewlines(Tail(text))

\* C11: for a valid JSON text but for literal newlines inside a string value,
\* repairJSON returns a text that JSON.parse accepts and whose string value is
\* the original characters, newlines kept.
C11_NewlineInStringPreserved ==
  (json.stage = "repaired" /\ json.wrap = "none" /\ json.doc \in NewlineDocuments)
    => /\ JSONParse(json.out.text).ok
       /\ JSONParse(json.out.text).val = JSONParse(EscapeNewlines(json.doc)).val

----------------------------------------------------------------------------
(* Claims about the classifier's merge and the agents' validators.         *)

\* Whether no classification has any content for the slide type.
NoContentFor(classifications, slideType) ==
  \A n \in 1..Len(classifications) :
    \/ slideType \notin DOMAIN classifications[n].slideRelevance
    \/ classifications[n].slideRelevance[slideType].extractedContent = <<>>

\* C13: whatever the classified documents, a slide type that no document
\* contributes content to is named by an entry of the merged result's
\* missingCritical.
C13_EmptySlideTypeReported ==
  merge.stage = "merged"
    => \A slideType \in SlideSet :
         NoContentFor(merge.classifications, slideType)
           => \E k \in 1..Len(merge.result.missingCritical) :
                HasAt(merge.result.missingCritical[k], 1, slideType \o <<":">>)

\* C14: for a deck configuration with company.name and a slides array,
\* validateDeckConfig raises no error, gives exactly one warning for each
\* slide type that no slide has, and execute saves the configuration.
C14_MissingSlideTypeOnlyWarns ==
  (deck.stage = "done" /\ deck.agent = "generator"
     /\ deck.parsed.company = "named" /\ deck.parsed.slides.kind = "array")
    => /\ deck.threw = "" /\ deck.validation.valid /\ deck.validation.errors = <<>>
       /\ "deck-config.json" \in deck.files
       /\ \A type \in SlideSet :
            Cardinality({n \in 1..Len(deck.validation.warnings) :
                           deck.validation.warnings[n] = <<"Missing slide type: ", type>>})
              = IF \E n \in 1..Len(deck.parsed.slides.items) :
                     deck.parsed.slides.items[n].type = type
                THEN 0 ELSE 1

C14_Witness ==
  /\ deck.stage = "done" /\ deck.agent = "generator"
  /\ deck.parsed.company = "named" /\ deck.parsed.slides.kind = "array"
  /\ Len(deck.parsed.slides.items) = Len(SLIDE_TYPES) - 1
  /\ <<"Missing slide type: ", SLIDE_TYPES[2]>> \in
       {deck.validation.warnings[n] : n \in 1..Len(deck.validation.warnings)}
  /\ "deck-config.json" \in deck.files

\* C15: when the parsed response has no slides array, the synthesizer's
\* validation fails, execute raises and synthesis-output.json is not written.
C15_NoSlidesArrayFailsSynthesis ==
  (deck.stage = "done" /\ deck.agent = "synthesizer"
     /\ deck.parsed.slides.kind # "array")
    => /\ ~deck.validation.valid
       /\ deck.threw # ""
       /\ "synthesis-output.json" \notin deck.files

----------------------------------------------------------------------------
(* Claims about the pipeline driver.                                       *)

\* The keys of the phases that will execute: phases 2 and 3 when the run
\* starts at or before them and they are not skipped, phase 4 when the run
\* starts at or before it.
KeysOfPhasesToRun ==
  (IF driver.FROM_PHASE <= 2 /\ ~driver.SKIP_CLASSIFY THEN {"ANTHROPIC_API_KEY"} ELSE {})
    \cup (IF driver.FROM_PHASE <= 3 /\ ~driver.SKIP_SYNTHESIZE THEN {"OPENAI_API_KEY"} ELSE {})
    \cup (IF driver.FROM_PHASE <= 4 THEN {"GOOGLE_AI_API_KEY"} ELSE {})

\* C16: once the pre-flight checks are done with the user inputs present,
\* the keys checked are those of the phases that will execute and no other;
\* when one of them is missing, without --yes the driver in non-interactive
\* mode has exited non-zero with no phase run and no prompt, in interactive
\* mode it has prompted, and a phase has run only under --yes or after the
\* operator answered y.
C16_CredentialsCheckedBeforePhases ==
  (driver.stage \notin {"idle", "preflight"} /\ driver.userInputs)
    => /\ driver.checked = KeysOfPhasesToRun
       /\ (KeysOfPhasesToRun \ driver.env # {})
            => /\ (~driver.AUTO_YES /\ (driver.NON_INTERACTIVE \/ ~driver.tty))
                    => /\ driver.stage = "exited" /\ driver.exitCode # 0
                       /\ driver.ran = <<>> /\ ~driver.prompted
               /\ (~driver.AUTO_YES /\ ~driver.NON_INTERACTIVE /\ driver.tty)
                    => driver.prompted
               /\ (driver.ran # <<>> \/ driver.stage # "exited")
                    => driver.AUTO_YES \/ (driver.prompted /\ driver.REPLY = "y")

C16_Witness ==
  /\ driver.stage = "exited" /\ driver.userInputs /\ driver.exitCode = 1
  /\ driver.FROM_PHASE = 3 /\ driver.SKIP_SYNTHESIZE /\ driver.NON_INTERACTIVE
  /\ ~driver.AUTO_YES /\ driver.env = {"OPENAI_API_KEY"}
  /\ driver.checked = {"GOOGLE_AI_API_KEY"} /\ driver.ran = <<>>

\* C17: the phases that have executed are in increasing order, each at or
\* after the starting phase and not skipped, each but the last exited 0; and
\* when the last exited non-zero the driver has exited non-zero without the
\* completion summary, so that no later phase executes.
C17_PhasesInOrderStopAtFailure ==
  driver.stage # "idle"
    => /\ \A n \in 1..Len(driver.ran) :
            /\ driver.ran[n].phase \in driver.FROM_PHASE..5
            /\ ~Skipped(driver, driver.ran[n].phase)
            /\ n < Len(driver.ran)
                 => /\ driver.ran[n].phase < driver.ran[n + 1].phase
                    /\ driver.ran[n].status = 0
       /\ (driver.ran # <<>> /\ driver.ran[Len(driver.ran)].status # 0)
            => /\ driver.stage = "exited" /\ driver.exitCode # 0
               /\ ~driver.summary

C17_Witness ==
  /\ Len(driver.ran) = 2 /\ driver.FROM_PHASE = 2 /\ driver.SKIP_SYNTHESIZE
  /\ driver.ran[1] = [phase |-> 2, status |-> 0]
  /\ driver.ran[2] = [phase |-> 4, status |-> 1]
  /\ driver.stage = "exited" /\ driver.exitCode = 1

----------------------------------------------------------------------------
(* Claims about the image generator's timing.                              *)

\* C19: any two consecutive calls to the image provider, retries and the
\* first call for the next image included, start at least 3000 ms apart.
C19_MinimumSpacingBetweenCalls ==
  (img.stage # "idle" /\ img.calls >= 2) => img.lastStart - img.prevStart >= 3000

\* C20: the delay slept before retry n of an image call is the capped
\* exponential min(baseBackoffMs * 2^(n-1), 60000) plus a jitter of at most
\* 20%, so it never exceeds 60 s by more than the jitter.
C20_RetryDelayCappedWithJitter ==
  img.stage # "idle"
    => \A n \in 1..Len(img.retry.delays) :
         LET exponential == 3000 * (2 ^ (n - 1))
             capped      == IF exponential < 60000 THEN exponential ELSE 60000
         IN  /\ img.retry.delays[n] >= capped
             /\ img.retry.delays[n] <= capped + (capped * 20) \div 100

----------------------------------------------------------------------------
(* Further claims about the retry executor, the image generator and the    *)
(* cost tracker.                                                           *)

\* C21: withRetry sleeps once after each failed attempt k < retryAttempts
\* that failed with a retryable error, for exactly retryDelay * 2^(k-1) ms
\* (no jitter); it sleeps after no other failure, and never after the final
\* attempt.
C21_DelayIsPureExponential ==
  retry.result # "idle"
    => /\ Len(retry.delays)
            = Cardinality({k \in 1..Len(retry.errors) :
                             isRetryable(retry.errors[k]) /\ k < retry.retryAttempts})
       /\ Len(retry.delays) < retry.retryAttempts \/ retry.retryAttempts < 1
       /\ \A k \in 1..Len(retry.delays) :
            /\ retry.delays[k] = retry.retryDelay * (2 ^ (k - 1))
            /\ isRetryable(retry.errors[k])

C21_Witness ==
  /\ retry.retryAttempts >= 4 /\ Len(retry.errors) = retry.retryAttempts
  /\ AllRetryable(retry.errors) /\ retry.result = "thrown"
  /\ Len(retry.delays) = retry.retryAttempts - 1
  /\ retry.delays[3] = 4 * retry.retryDelay

\* C22: an image whose payload fails validateImageData is not written; the
\* loop records null for it and goes on to the next image type, so that the
\* phase ends normally with a manifest of one entry per requested image
\* type, null or the path of that image.
C22_Inv ==
  (cfg.phase = "final" /\ pc \in {"summary", "exited"} /\ work.failed > 0)
    => /\ Len(work.generated) = work.images
       /\ "generated-images.json" \in out.files
       /\ \A i \in 1..work.images : work.generated[i] \in {<<>>, <<ImageFile(i)>>}
       /\ pc = "exited" => out.exitCode = 0 /\ out.completed

C22_InvalidImageSkipped ==
  /\ []C22_Inv
  /\ [][(pc = "imageRetry" /\ pc' # pc /\ retry.result = "success"
           /\ ~validateImageData(retry.value))
          => /\ work'.written = work.written
             /\ work'.generated = Append(work.generated, <<>>)
             /\ pc' = "imageLoop" /\ idx' = idx + 1 /\ out' = out]_vars

\* The first image's only call succeeded and was paid for, yet its entry is
\* null: its payload failed validation; the loop is at the second image.
C22_Witness ==
  /\ pc = "imageLoop" /\ idx = 2 /\ work.images >= 2
  /\ work.generated = <<<<>>>> /\ work.written = {}
  /\ calls["imageGenerator"] = 1 /\ Len(tracker["imageGenerator"].calls) = 1
  /\ ~limitHit["imageGenerator"]

\* C23: a "not supported" error of the image provider never reaches
\* withRetry as a failure: the attempt returns the placeholder image with no
\* retry, no sleep and no cost record; the placeholder passes
\* validateImageData, is written as that image's file and its manifest entry
\* is that file's path.
C23_Inv ==
  /\ \A k \in 1..Len(retry.errors) :
       ~Includes(retry.errors[k].message,
                 <<"n","o","t"," ","s","u","p","p","o","r","t","e","d">>)
  /\ retry.value = "placeholder" => retry.result = "success"
  /\ validateImageData("placeholder")

C23_NotSupportedGivesPlaceholder ==
  /\ []C23_Inv
  /\ [][(pc = "imageRetry" /\ retry.result = "attempting"
           /\ retry'.value = "placeholder")
          => /\ retry'.invocations = retry.invocations + 1
             /\ retry'.errors = retry.errors /\ retry'.delays = retry.delays
             /\ tracker' = tracker]_vars
  /\ [][(pc = "imageRetry" /\ pc' # pc /\ retry.value = "placeholder")
          => /\ work'.generated = Append(work.generated, <<ImageFile(idx)>>)
             /\ ImageFile(idx) \in work'.written
             /\ work'.failed = work.failed]_vars

C23_Witness ==
  /\ pc = "imageLoop" /\ idx = 2 /\ work.generated = <<<<ImageFile(1)>>>>
  /\ ImageFile(1) \in work.written
  /\ calls["imageGenerator"] = 1 /\ tracker["imageGenerator"].calls = <<>>

\* The sum of the costs of a tracker's records, and of its breakdown.
RECURSIVE SumCost(_)
SumCost(records) ==
  IF records = <<>> THEN 0 ELSE records[1].cost + SumCost(Tail(records))

\* C26: a tracker's records are only ever appended to; its totalCost is the
\* sum of the records' costs and the sum of the breakdown, and never
\* decreases; getSummary returns the total, the breakdown, the number of
\* records and the average (0 with no record).
C26_Inv ==
  \A a \in Agents :
    LET t == tracker[a]
    IN  /\ t.totalCost = SumCost(t.calls)
        /\ t.totalCost = SumCost(t.breakdown)
        /\ getSummary(t).totalCost = t.totalCost
        /\ getSummary(t).breakdown = t.breakdown
        /\ getSummary(t).callCount = Len(t.calls)
        /\ getSummary(t).averageCostPerCall
             = IF t.calls = <<>> THEN 0 ELSE SumCost(t.calls) \div Len(t.calls)

C26_TrackerAppendOnly ==
  /\ []C26_Inv
  /\ [][\A a \in Agents :
          /\ Len(tracker'[a].calls) >= Len(tracker[a].calls)
          /\ SubSeq(tracker'[a].calls, 1, Len(tracker[a].calls)) = tracker[a].calls
          /\ tracker'[a].totalCost >= tracker[a].totalCost]_vars

C26_Witness ==
  \E a \in Agents :
    /\ Len(tracker[a].calls) >= 2 /\ tracker[a].totalCost > 0
    /\ tracker[a].calls[1].cost # tracker[a].calls[2].cost

\* C30: every path in the image generator's manifest that is not null names
\* a file the generator wrote to the assets directory (which it does only
\* with a payload that passed validateImageData), in dry-run mode too.
C30_ManifestPathsAreWrittenFiles ==
  \A i \in 1..Len(work.generated) :
    work.generated[i] # <<>> => work.generated[i][1] \in work.written

----------------------------------------------------------------------------
(* Further claims about the repair parser.                                 *)

\* Reading a JSON text from character i: lits are the contents of the
\* string literals closed so far, as written; open holds the content of the
\* literal being read, if any; stack the brackets opened outside strings and
\* not yet closed (innermost last); pending whether the text ended right
\* after a backslash inside a string.
RECURSIVE ReadText(_, _, _)
ReadText(text, i, st) ==
  IF i > Len(text) THEN st
  ELSE IF st.open = <<>>
  THEN ReadText(text, i + 1,
         CASE text[i] = "\"" -> [st EXCEPT !.open = << <<>> >>]
           [] text[i] \in {"[", "{"} -> [st EXCEPT !.stack = Append(@, text[i])]
           [] text[i] \in {"]", "}"} /\ st.stack # <<>> ->
                [st EXCEPT !.stack = SubSeq(@, 1, Len(@) - 1)]
           [] OTHER -> st)
  ELSE IF text[i] = "\\"
  THEN IF i = Len(text) THEN [st EXCEPT !.pending = TRUE]
       ELSE ReadText(text, i + 2,
                     [st EXCEPT !.open = <<@[1] \o <<text[i], text[i + 1]>>>>])
  ELSE IF text[i] = "\""
  THEN ReadText(text, i + 1, [st EXCEPT !.lits = Append(@, st.open[1]), !.open = <<>>])
  ELSE ReadText(text, i + 1, [st EXCEPT !.open = <<@[1] \o <<text[i]>>>>])

Read(text) ==
  ReadText(text, 1, [lits |-> <<>>, open |-> <<>>, stack |-> <<>>, pending |-> FALSE])

Closer(bracket) == IF bracket = "[" THEN "]" ELSE "}"

\* C27: for a valid JSON text (but for raw newlines inside strings), the
\* string literals of repairJSON's output are those of the input, character
\* for character, with the raw newlines written as escapes: the comma
\* repairs touch nothing inside a string.
C27_SeparatorRepairsSpareStrings ==
  (json.stage = "repaired" /\ json.wrap = "none" /\ json.cut = Len(json.doc))
    => Read(json.out.text).lits = Read(EscapeNewlines(json.text)).lits

\* C28: for a prefix of a valid JSON document, closeOpenBrackets returns the
\* prefix followed by the closing quote of a string left open and then the
\* closers of the brackets left open outside strings, innermost first; in
\* its output every bracket outside strings is matched, and closing the
\* output again changes nothing.
C28_ClosesUnmatchedBrackets ==
  (json.stage = "closed" /\ json.wrap = "none")
    => LET before == Read(json.text)
           after  == Read(json.out.text)
       IN  /\ json.out.text
                = json.text \o (IF before.open # <<>> THEN <<"\"">> ELSE <<>>)
                    \o [n \in 1..Len(before.stack) |->
                          Closer(before.stack[Len(before.stack) + 1 - n])]
           /\ after.stack = <<>> /\ after.open = <<>>
           /\ closeOpenBrackets(json.out.text) = json.out.text

\* Where the string value of a document with one string value begins.
ValueStart(doc) == IF doc[1] = "{" THEN 6 ELSE 2

\* C29: for a valid JSON document cut inside its string value, directly
\* after a backslash included, closeOpenBrackets closes the string before
\* the brackets: its output has no string left open and parses, the value
\* being the part of the string before the cut.
C29_ClosesOpenString ==
  (json.stage = "closed" /\ json.wrap = "none" /\ json.doc \in EscapeDocuments
     /\ json.cut >= ValueStart(json.doc) /\ Read(json.text).open # <<>>)
    => LET before  == Read(json.text)
           whole   == IF before.pending
                      THEN SubSeq(json.text, 1, Len(json.text) - 1) ELSE json.text
           closers == [n \in 1..Len(before.stack) |->
                         Closer(before.stack[Len(before.stack) + 1 - n])]
       IN  /\ Read(json.out.text).open = <<>>
           /\ JSONParse(json.out.text).ok
           /\ JSONParse(json.out.text).val
                = JSONParse(whole \o <<"\"">> \o closers).val

----------------------------------------------------------------------------
(* Claims about the extraction script and the prompt logger.               *)

\* C24: with markitdown installed, for every non-empty set of .pdf, .md and
\* .txt source files, a set with no .pdf included, the extraction script
\* exits 0, so that the driver goes on to phase 2, and extracted-text holds
\* one .txt file for each source file.
C24_ExtractsEverySupportedInput ==
  (extract.stage = "exited" /\ extract.markitdown)
    => /\ extract.exitCode = 0 /\ ~ExitsOnFailure(extract.exitCode)
       /\ \A s \in extract.sources : s \in extract.output

\* The number of logged prompts of an agent, and the sum of their token
\* estimates.
LoggedBy(agentName) == SelectSeq(logger.prompts, LAMBDA p : p.agentName = agentName)

\* C25: starting from no manifest, once saveManifest has run after n
\* logPrompt calls, whatever their agents, types and timing, the manifest
\* has n entries, totalPrompts is n, and totalTokensEstimate and the counts
\* and tokens of each agent are the sums over the n prompts logged.
C25_EveryLoggedPromptInManifest ==
  (logger.stage = "open" /\ logger.manifest # <<>>
     /\ logger.saved = Len(logger.prompts))
    => LET manifest == logger.manifest[1]
       IN  /\ Len(manifest.prompts) = Len(logger.prompts)
           /\ manifest.totalPrompts = Len(logger.prompts)
           /\ manifest.totalTokensEstimate = SumOf(logger.prompts, "tokenEstimate")
           /\ \A a \in PromptAgents :
                LoggedBy(a) # <<>>
                  => /\ a \in DOMAIN manifest.promptsByAgent
                     /\ manifest.promptsByAgent[a].count = Len(LoggedBy(a))
                     /\ manifest.promptsByAgent[a].totalTokens
                          = SumOf(LoggedBy(a), "tokenEstimate")

====
